---- MODULE Spec2Model ----
(***************************************************************************)
(* Device gateway: the event store with its subscriber fan-out             *)
(* (device_store.rs, websocket.rs) and the per-device TCP session with the *)
(* device manager (esp32_connection.rs, esp32_manager.rs).                 *)
(***************************************************************************)
EXTENDS Integers, Sequences, FiniteSets, Bags, TLC

\* ------------------------------------------------------------------------
\* Bounds of the model
\* ------------------------------------------------------------------------
MaxEvents == 2
MaxRegs == 2
MaxCap == 2
MaxOps == 4
MaxFrames == 5
MaxDebug == 3

\* ------------------------------------------------------------------------
\* Event store: domains
\* ------------------------------------------------------------------------
StoreDevices == {"d1", "d2"}
Clients == {"c1", "c2", "c3"}
\* two device-side tasks that may be inside add_event at the same time
ProducerIds == {"p1", "p2"}

\* websocket.rs:111-114: the user a channel is attached for; c1 and c2 are two
\* tabs of one user.
user_of(c) == IF c = "c3" THEN "u2" ELSE "u1"

\* events.rs:96-200: the event kinds the fan-out distinguishes.
RawBroadcast == "Esp32UdpBroadcast"
ConnectionStatus == "Esp32ConnectionStatus"
VariableUpdate == "Esp32VariableUpdate"
Kinds == {RawBroadcast, ConnectionStatus, VariableUpdate}

Light == "light"
Full == "full"
SubscriptionType == {Light, Full}

\* client_id the device-side producers pass to add_event (esp32_manager.rs:572).
SystemClient == "ESP32_INTERNAL"
RefreshUser == "USER_COUNT_REFRESH"

VARIABLES
    device_events,      \* device -> Seq of stored events (device_store.rs:144)
    active_connections, \* device -> Seq of ClientConnection (device_store.rs:146)
    max_debug_messages_per_device, \* device_store.rs:148
    max_cap_seen,       \* history: largest cap configured so far
    next_event_id,      \* serial number of the next stored event
    producer,           \* device-side add_event calls in flight
    handler,            \* per channel: position of its message handler
    registered_devices, \* per channel: websocket.rs:148
    regs_done,          \* registerForDevice messages handled (outside the script)
    channel,            \* per channel: what the latest step sent on its sender
    delivered,          \* history: per channel and device, the ids of the
                        \* stored events sent on the channel, in order
    presence_log,       \* history: UserJoined/UserLeft handed to broadcast_event
    script,             \* NoScript, or the stage of the multi-tab scenario
    sender_closed,      \* channels whose outgoing task has ended: the
                        \* receiver of their sender is dropped
    debug_added,        \* history: per device, the ids of the debug messages
                        \* pushed into its history, in order
    command_log,        \* history: the commands of channels that were
                        \* routed to the device manager
    pair,               \* history of the register/unregister pair: its
                        \* stage, the device, the device's list before it
                        \* and what it sent on each channel
    lock_tasks          \* the tasks inside an operation: a bag of positions
                        \* (operation, step) in the lock programs

storeVars == <<device_events, active_connections, max_debug_messages_per_device,
               max_cap_seen, next_event_id, producer, handler,
               registered_devices, regs_done, channel, delivered,
               presence_log, script, sender_closed, debug_added,
               command_log, pair, lock_tasks>>

\* One TCP device that has been added (add_device): its session
\* (esp32_connection.rs) and the manager's registries (esp32_manager.rs).
VARIABLES
    connection_state,   \* esp32_connection.rs:28
    tcp_stream,         \* esp32_connection.rs:27: is the handle present?
    reader_tasks,       \* reader tasks looping on the session's handle
    shutdown_sender,    \* esp32_connection.rs:31: does it reach a live reader?
    event_queues,       \* event_sender channels not yet drained by their
                        \* forwarding task; the last one is the session's
    session_lock,       \* who holds the session's mutex across steps
    ip_to_device_id,    \* esp32_manager.rs: is the device's address routed?
    unified_connection_states, \* the manager's connected flag of the device
    unified_activity_tracker,  \* "absent", "fresh" or "stale" (timed out)
    tcp_tasks,          \* spawned handlers of inbound TCP frames
    udp_listener,       \* position of the central UDP listener
    timeout_monitor,    \* position of the liveness monitor
    status_log,         \* the device's history, its ConnectionStatus events:
                        \* the connected values handed to add_event, in order
    ops_done,           \* calls and inbound frames so far
    returned,           \* history: the call that returned in the latest step
    reset_mark,         \* history: Len(status_log) when a reset was sent
    reattach,           \* history: how the device re-attached after it
    monitor_emits       \* history: disconnect events of the liveness monitor
                        \* since the device's latest datagram (NoMark: none
                        \* has arrived)

\* The byte stream of the session's TCP connection and the reader's frame
\* accumulator (esp32_connection.rs:437-469, 500-534).
VARIABLES
    stream_parts,       \* history: the objects and fragments the device sent
    wire,               \* the bytes of the stream that are not yet read
    tcp_buffer,         \* esp32_connection.rs:29: the accumulated text
    frames              \* history: the frames extracted so far, in order

frameVars == <<stream_parts, wire, tcp_buffer, frames>>

connVars == <<frameVars, connection_state, tcp_stream, reader_tasks, shutdown_sender,
              event_queues, session_lock, ip_to_device_id,
              unified_connection_states, unified_activity_tracker, tcp_tasks,
              udp_listener, timeout_monitor, status_log, ops_done, returned,
              reset_mark, reattach, monitor_emits>>

\* The manager's registries over several device ids and the ways a device
\* enters the system (esp32_manager.rs, esp32_discovery.rs,
\* uart_connection.rs).
VARIABLES
    device_connection_types, \* esp32_manager.rs:51: id -> NoType, TcpUdp, Uart
    connections,        \* esp32_manager.rs: the ids that have a session
    device_configs,     \* esp32_manager.rs: the ids that have a configuration
    discovered_devices, \* esp32_discovery.rs: the ids resolved by mDNS
    connection_states,  \* the manager's connected flags: id -> "absent",
                        \* "true" or "false"
    activity_tracker,   \* the ids that have a last-seen entry
    mdns_threads,       \* per id: position of the thread of the mDNS callback
    uart_tasks,         \* per id: spawned handlers of UART frames, by position
    system_events,      \* history of the device "system": the ids of its
                        \* DeviceDiscovered events, in order
    stored_for,         \* the ids whose own history holds an event
    entered_by,         \* history: how the id first appeared
    first_type,         \* history: the first connection type of the id
    frames_done,        \* resolutions, frames and calls so far
    add_calls,          \* per id: add_device calls of channel handlers that
                        \* found no session and have not inserted theirs
    sessions            \* per id: how many session objects were made for
                        \* it, and is the one in the map Connected?

mgrVars == <<device_connection_types, connections, device_configs,
             discovered_devices, connection_states, activity_tracker,
             mdns_threads, uart_tasks, system_events, stored_for, entered_by,
             first_type, frames_done, add_calls, sessions>>

vars == <<storeVars, connVars, mgrVars>>

NoConn == [client_id |-> "", user_id |-> "", user_color |-> 0 - 1,
           subscription_type |-> Full]

IdleHandler == [pc |-> "idle", dev |-> "d1", sub |-> Full, recon |-> FALSE,
                user_color |-> 0 - 1, snapshot |-> <<>>, removed |-> NoConn,
                still |-> FALSE, kind |-> VariableUpdate, id |-> 0,
                closing |-> FALSE]

IdleProducer == [pc |-> "idle", dev |-> "d1", kind |-> VariableUpdate,
                 max_debug |-> 0, id |-> 0]

\* ------------------------------------------------------------------------
\* Sequence helpers
\* ------------------------------------------------------------------------
Range(s) == {s[i] : i \in 1..Len(s)}

RemoveAt(s, k) == [i \in 1..(Len(s) - 1) |-> IF i < k THEN s[i] ELSE s[i + 1]]

\* A retain that removes nothing.
KeepAll(conns, client_id) == conns

\* Vec::retain(|conn| conn.client_id != client_id)
RetainOthers(conns, client_id) ==
    LET Keep(conn) == conn.client_id # client_id IN SelectSeq(conns, Keep)

\* Vec::retain(|id| id != device_id)
RetainDevices(devs, device_id) ==
    LET Keep(d) == d # device_id IN SelectSeq(devs, Keep)

\* A find that never matches.
FindNone(conns, user_id) == NoConn

\* iter().find(|conn| pred): the first match, NoConn when there is none
FirstByUser(conns, user_id) ==
    IF \E i \in 1..Len(conns) : conns[i].user_id = user_id
    THEN conns[CHOOSE i \in 1..Len(conns) :
                   /\ conns[i].user_id = user_id
                   /\ \A j \in 1..(i - 1) : conns[j].user_id # user_id]
    ELSE NoConn

\* A find by client_id that never matches.
FindNoClient(conns, client_id) == NoConn

FirstByClient(conns, client_id) ==
    IF \E i \in 1..Len(conns) : conns[i].client_id = client_id
    THEN conns[CHOOSE i \in 1..Len(conns) :
                   /\ conns[i].client_id = client_id
                   /\ \A j \in 1..(i - 1) : conns[j].client_id # client_id]
    ELSE NoConn

\* ------------------------------------------------------------------------
\* User colours (device_store.rs:10-98); a colour is its palette index
\* ------------------------------------------------------------------------
PaletteSize == 16

\* fnv_hash(user_id) % USER_COLORS.len(): FNV-1a of the bytes "u1" is
\* 71477235 and of "u2" is 88254854 (32-bit wrapping arithmetic).
primary_index(user_id) == IF user_id = "u1" THEN 71477235 % PaletteSize
                          ELSE 88254854 % PaletteSize

\* create_color_variation: the base colour shifted by (factor % 8) * 8 per
\* channel; a shift of 0 gives the base colour back.
create_color_variation(base, factor) ==
    IF factor % 8 = 0 THEN base ELSE PaletteSize + base * 8 + (factor % 8)

generate_user_color(user_id, existing_colors) ==
    LET p == primary_index(user_id)
        Free(i) == ((p + i) % PaletteSize) \notin existing_colors
    IN  IF p \notin existing_colors THEN p
        ELSE IF \E i \in 1..(PaletteSize - 1) : Free(i)
        THEN (p + (CHOOSE i \in 1..(PaletteSize - 1) :
                       Free(i) /\ \A j \in 1..(i - 1) : ~Free(j))) % PaletteSize
        ELSE create_color_variation(p, Cardinality(existing_colors))

\* ------------------------------------------------------------------------
\* broadcast_event (device_store.rs:549-600)
\* ------------------------------------------------------------------------
Item(dev, id, kind, origin, path, user) ==
    [dev |-> dev, id |-> id, kind |-> kind, origin |-> origin, path |-> path,
     user |-> user]

\* A loop that does not skip the sender.
ReceivesUnlessLight(conn, kind, sender_client_id) ==
    ~(conn.subscription_type = Light /\ kind # ConnectionStatus)

\* Does the loop of broadcast_event send to this connection?
Receives(conn, kind, sender_client_id) ==
    /\ conn.client_id # sender_client_id
    /\ ~(conn.subscription_type = Light /\ kind # ConnectionStatus)

\* A broadcast that reaches nobody.
broadcast_to_none(device_id, item, sender_client_id) ==
    [c \in Clients |-> <<>>]

\* The channels after broadcast_event(device_id, event, sender_client_id):
\* one message per listed connection that passes the two filters.
broadcast_event(device_id, item, sender_client_id) ==
    [c \in Clients |->
        IF \E conn \in Range(active_connections[device_id]) :
               conn.client_id = c /\ Receives(conn, item.kind, sender_client_id)
        THEN <<item>>
        ELSE <<>>]

\* Nothing is sent.
Silent == [c \in Clients |-> <<>>]

\* The ids of the stored events among the items sent for a device.
EventIds(items, dev) ==
    LET Stored(item) == item.dev = dev /\ item.id > 0
        sel == SelectSeq(items, Stored)
    IN  [i \in 1..Len(sel) |-> sel[i].id]

\* What reaches the channels of out: send_message fails on a sender whose
\* receiver is dropped (device_store.rs:134-140, 583-596).
Accepted(out) ==
    [c \in Clients |-> IF c \in sender_closed THEN <<>> ELSE out[c]]

\* The step sends out[c] on the sender of each channel c.
Send(out) ==
    /\ channel' = Accepted(out)
    /\ delivered' = [c \in Clients |-> [d \in StoreDevices |->
           delivered[c][d] \o EventIds(Accepted(out)[c], d)]]

NoSend == Send(Silent)

\* ------------------------------------------------------------------------
\* add_event (device_store.rs:176-245)
\* ------------------------------------------------------------------------
IsDebug(e) == e.kind = RawBroadcast

debug_count(events) == Cardinality({i \in 1..Len(events) : IsDebug(events[i])})

\* The latest debug message instead of the oldest.
newest_debug_idx(events) ==
    CHOOSE i \in 1..Len(events) :
        /\ IsDebug(events[i])
        /\ \A j \in (i + 1)..Len(events) : ~IsDebug(events[j])

oldest_debug_idx(events) ==
    CHOOSE i \in 1..Len(events) :
        IsDebug(events[i]) /\ \A j \in 1..(i - 1) : ~IsDebug(events[j])

\* A push that never evicts.
append_only(events, e, max_debug) == Append(events, e)

RECURSIVE DropOldestDebug(_, _)
DropOldestDebug(events, n) ==
    IF n = 0 THEN events
    ELSE DropOldestDebug(RemoveAt(events, oldest_debug_idx(events)), n - 1)

\* A push that evicts until the history is below the limit.
trim_to_limit(events, e, max_debug) ==
    LET excess == IF IsDebug(e) /\ max_debug > 0
                     /\ debug_count(events) >= max_debug
                  THEN debug_count(events) - max_debug + 1
                  ELSE 0
    IN  Append(DropOldestDebug(events, excess), e)

\* lines 209-233: the history after the push, with the limit enforced for a
\* debug message; max_debug is the limit read before the lock was taken.
store_event(events, e, max_debug) ==
    LET trimmed ==
            IF IsDebug(e) /\ max_debug > 0 /\ debug_count(events) >= max_debug
            THEN RemoveAt(events, oldest_debug_idx(events))
            ELSE events
    IN  Append(trimmed, e)

\* set_max_debug_messages (device_store.rs:162-166); the settings handler
\* only passes values in its accepted range (main.rs:1804), never 0.
set_max_debug_messages(max) ==
    /\ max_debug_messages_per_device' = max
    /\ max_cap_seen' = IF max > max_cap_seen THEN max ELSE max_cap_seen
    /\ NoSend
    /\ UNCHANGED <<connVars, mgrVars, sender_closed, debug_added, command_log,
                   device_events, active_connections, next_event_id, producer,
                   handler, registered_devices, regs_done, presence_log,
                   script>>

\* The debug messages pushed so far.
DebugPushed ==
    Cardinality({<<d, i>> \in StoreDevices \X (1..MaxDebug) :
                     i <= Len(debug_added[d])})

\* add_event calls that have read the limit and not pushed yet (they bound
\* the budget of debug messages).
PendingPushes == Cardinality({p \in ProducerIds : producer[p].pc = "push"})

\* The tasks are interchangeable: the idle one of lowest name starts.
MayRun(p) == p = "p1" \/ producer["p1"].pc # "idle"

\* lines 208-233, under the events write lock: the push with a fresh id.
Pushed(p, dev, kind, max_debug) ==
    /\ device_events' = [device_events EXCEPT ![dev] =
           store_event(@, [id |-> next_event_id, kind |-> kind,
                           origin |-> SystemClient], max_debug)]
    /\ producer' = [producer EXCEPT ![p] =
           [pc |-> "broadcast", dev |-> dev, kind |-> kind,
            max_debug |-> max_debug, id |-> next_event_id]]
    /\ next_event_id' = next_event_id + 1
    /\ debug_added' = IF kind = RawBroadcast
                      THEN [debug_added EXCEPT
                                ![dev] = Append(@, next_event_id)]
                      ELSE debug_added

\* A device-side producer (TCP/UDP/UART ingress, liveness monitor, manager)
\* calls add_event with an event that is not a debug message: lines 183-233
\* take no lock before the events lock.
ProducerAdd(p, dev, kind) ==
    /\ producer[p].pc = "idle"
    /\ MayRun(p)
    /\ kind # RawBroadcast
    /\ next_event_id - DebugPushed <= MaxEvents
    /\ Pushed(p, dev, kind, 0)
    /\ NoSend
    /\ UNCHANGED <<connVars, mgrVars, sender_closed, command_log,
                   active_connections,
                   max_debug_messages_per_device, max_cap_seen, handler,
                   registered_devices, regs_done, presence_log, script>>

\* add_event with a debug message, lines 183-206: the limit is read under
\* its own lock before the events lock is taken.
ProducerReadLimit(p, dev) ==
    /\ producer[p].pc = "idle"
    /\ MayRun(p)
    /\ DebugPushed + PendingPushes < MaxDebug
    /\ producer' = [producer EXCEPT ![p] =
           [pc |-> "push", dev |-> dev, kind |-> RawBroadcast,
            max_debug |-> max_debug_messages_per_device, id |-> 0]]
    /\ NoSend
    /\ UNCHANGED <<connVars, mgrVars, sender_closed, debug_added, command_log,
                   device_events, active_connections,
                   max_debug_messages_per_device, max_cap_seen, next_event_id,
                   handler, registered_devices, regs_done, presence_log,
                   script>>

\* add_event with a debug message, lines 208-233.
ProducerPush(p) ==
    /\ producer[p].pc = "push"
    /\ Pushed(p, producer[p].dev, producer[p].kind, producer[p].max_debug)
    /\ NoSend
    /\ UNCHANGED <<connVars, mgrVars, sender_closed, command_log,
                   active_connections,
                   max_debug_messages_per_device, max_cap_seen, handler,
                   registered_devices, regs_done, presence_log, script>>

\* lines 235-242: under the subscribers read lock.
ProducerBroadcast(p) ==
    /\ producer[p].pc = "broadcast"
    /\ Send(broadcast_event(producer[p].dev,
           Item(producer[p].dev, producer[p].id, producer[p].kind,
                SystemClient, "live", ""),
           SystemClient))
    /\ producer' = [producer EXCEPT ![p] = IdleProducer]
    /\ UNCHANGED <<connVars, mgrVars, sender_closed, debug_added, command_log,
                   device_events, active_connections,
                   max_debug_messages_per_device, max_cap_seen, next_event_id,
                   handler, registered_devices, regs_done, presence_log,
                   script>>

\* ------------------------------------------------------------------------
\* The channel's message handler (websocket.rs:150-202): one message at a
\* time per channel.  In the multi-tab scenario the two tabs only take the
\* scripted steps.
\* ------------------------------------------------------------------------
ScriptClients == {"c1", "c2"}

\* script = NoScript: every channel takes any step.
NoScript == 0 - 1

\* script = FreeLogged: every channel takes any step and the presence
\* history is kept.
FreeLogged == 0 - 2

MayStart(c, op, dev) ==
    \/ script < 0
    \/ c \notin ScriptClients
    \/ /\ dev = "d1"
       /\ \/ script = 0 /\ c = "c1" /\ op = "register"
          \/ script = 1 /\ c = "c2" /\ op = "register"
          \/ script = 2 /\ c = "c1" /\ op = "close"
          \/ script = 3 /\ c = "c2" /\ op = "close"

Scripted(c) == script >= 0 /\ c \in ScriptClients

ScriptAfter(c) == IF Scripted(c) THEN script + 1 ELSE script

\* The presence history is kept for the scenarios only.
Logged(entry) == IF script = NoScript THEN presence_log
                 ELSE Append(presence_log, entry)

\* register_client, the critical section (device_store.rs:301-366).
RegisterInsert(c, dev, sub) ==
    /\ handler[c].pc = "idle"
    /\ Scripted(c) \/ regs_done < MaxRegs
    /\ MayStart(c, "register", dev)
    /\ LET conns == active_connections[dev]
           existing == FirstByUser(conns, user_of(c))
           kept == RetainOthers(conns, c)
           is_reconnection == existing # NoConn
           user_color == IF is_reconnection THEN existing.user_color
                         ELSE generate_user_color(user_of(c),
                                  {conn.user_color : conn \in Range(kept)})
           connection == [client_id |-> c, user_id |-> user_of(c),
                          user_color |-> user_color, subscription_type |-> sub]
       IN /\ active_connections' =
                 [active_connections EXCEPT ![dev] = Append(kept, connection)]
          /\ handler' = [handler EXCEPT ![c] =
                 [IdleHandler EXCEPT !.pc = "reg_broadcast", !.dev = dev,
                                     !.sub = sub, !.recon = is_reconnection,
                                     !.user_color = user_color]]
    /\ regs_done' = IF Scripted(c) THEN regs_done ELSE regs_done + 1
    /\ NoSend
    /\ UNCHANGED <<connVars, mgrVars, sender_closed, debug_added, command_log,
                   device_events, max_debug_messages_per_device, max_cap_seen,
                   next_event_id, producer, registered_devices, presence_log,
                   script>>

\* register_client, lines 370-383: UserJoined, or the refresh sentinel for a
\* reconnecting user, to everybody but the registering client.
RegisterBroadcast(c) ==
    /\ handler[c].pc = "reg_broadcast"
    /\ LET dev == handler[c].dev
           user == IF handler[c].recon THEN RefreshUser ELSE user_of(c)
       IN /\ Send(broadcast_event(dev,
                 Item(dev, 0, "userJoined", c, "live", user), c))
          /\ presence_log' = Logged([dev |-> dev, event |-> "userJoined",
                                      user_id |-> user, sender |-> c])
    /\ handler' = [handler EXCEPT ![c].pc = "reg_snapshot"]
    /\ UNCHANGED <<connVars, mgrVars, sender_closed, debug_added, command_log,
                   device_events, active_connections,
                   max_debug_messages_per_device, max_cap_seen, next_event_id,
                   producer, registered_devices, regs_done, script>>

\* register_client, lines 385-391 (get_device_events), and websocket.rs:364-367.
RegisterSnapshot(c) ==
    /\ handler[c].pc = "reg_snapshot"
    /\ handler' = [handler EXCEPT ![c].pc = "reg_replay",
                                  ![c].snapshot = device_events[handler[c].dev]]
    /\ registered_devices' = [registered_devices EXCEPT ![c] =
           IF handler[c].dev \in Range(@) THEN @ ELSE Append(@, handler[c].dev)]
    /\ NoSend
    /\ UNCHANGED <<connVars, mgrVars, sender_closed, debug_added, command_log,
                   device_events, active_connections,
                   max_debug_messages_per_device, max_cap_seen, next_event_id,
                   producer, regs_done, presence_log, script>>

\* The replay batch as the items of one message, in history order.
ReplayItems(dev, events) ==
    [i \in 1..Len(events) |->
        Item(dev, events[i].id, events[i].kind, events[i].origin, "replay", "")]

\* websocket.rs:369-579.  For a light subscription to a TCP/UDP device the
\* handler first sends the device's status straight to this channel
\* (lines 458-549; whether it does depends on the manager's registry, an
\* input here), then the replay batch (lines 551-577).
RegisterReplay(c, direct_status) ==
    /\ handler[c].pc = "reg_replay"
    /\ direct_status => handler[c].sub = Light
    /\ LET dev == handler[c].dev
           status == IF direct_status
                     THEN <<Item(dev, 0, ConnectionStatus, "", "status", "")>>
                     ELSE <<>>
       IN Send([Silent EXCEPT ![c] =
                    status \o ReplayItems(dev, handler[c].snapshot)])
    /\ handler' = [handler EXCEPT ![c] = IdleHandler]
    /\ script' = ScriptAfter(c)
    /\ UNCHANGED <<connVars, mgrVars, sender_closed, debug_added, command_log,
                   device_events, active_connections,
                   max_debug_messages_per_device, max_cap_seen, next_event_id,
                   producer, registered_devices, regs_done, presence_log>>

\* After unregister_client returned: handle_unregister_for_device drops the
\* device from the channel's list (websocket.rs:594-595); the close loop
\* (websocket.rs:205-209) goes on to the next device of the list it consumes.
UnregisterDone(c, dev) ==
    IF handler[c].closing
    THEN /\ registered_devices' = [registered_devices EXCEPT ![c] = Tail(@)]
         /\ IF Len(registered_devices[c]) > 1
            THEN /\ handler' = [handler EXCEPT ![c] =
                        [IdleHandler EXCEPT !.pc = "closing",
                                            !.closing = TRUE]]
                 /\ script' = script
            ELSE /\ handler' = [handler EXCEPT ![c] =
                        [IdleHandler EXCEPT !.pc = "closed"]]
                 /\ script' = ScriptAfter(c)
    ELSE /\ registered_devices' = [registered_devices EXCEPT ![c] =
                RetainDevices(@, dev)]
         /\ handler' = [handler EXCEPT ![c] = IdleHandler]
         /\ script' = script

\* unregister_client, the critical section (device_store.rs:396-425).
Removed(c, dev) ==
    LET found == FirstByClient(active_connections[dev], c)
    IN  /\ active_connections' = [active_connections EXCEPT ![dev] =
               RetainOthers(@, c)]
        /\ IF found # NoConn
           THEN /\ handler' = [handler EXCEPT ![c].pc = "unreg_check",
                                              ![c].dev = dev,
                                              ![c].removed = found]
                /\ UNCHANGED <<registered_devices, script>>
           ELSE UnregisterDone(c, dev)

\* An unregisterForDevice message (websocket.rs:287-294, 583-592) up to the
\* end of the critical section of unregister_client.
UnregisterRemove(c, dev) ==
    /\ handler[c].pc = "idle"
    /\ MayStart(c, "unregister", dev)
    /\ Removed(c, dev)
    /\ NoSend
    /\ UNCHANGED <<connVars, mgrVars, sender_closed, debug_added, command_log,
                   device_events, max_debug_messages_per_device, max_cap_seen,
                   next_event_id, producer, regs_done, presence_log>>

\* The close loop unregisters from its next device.
CloseNext(c) ==
    /\ handler[c].pc = "closing"
    /\ Removed(c, registered_devices[c][1])
    /\ NoSend
    /\ UNCHANGED <<connVars, mgrVars, sender_closed, debug_added, command_log,
                   device_events, max_debug_messages_per_device, max_cap_seen,
                   next_event_id, producer, regs_done, presence_log>>

\* unregister_client, lines 429-437: under a fresh read lock.
UnregisterCheck(c) ==
    /\ handler[c].pc = "unreg_check"
    /\ handler' = [handler EXCEPT
           ![c].pc = "unreg_broadcast",
           ![c].still = \E conn \in Range(active_connections[handler[c].dev]) :
                            conn.user_id = handler[c].removed.user_id]
    /\ NoSend
    /\ UNCHANGED <<connVars, mgrVars, sender_closed, debug_added, command_log,
                   device_events, active_connections,
                   max_debug_messages_per_device, max_cap_seen, next_event_id,
                   producer, registered_devices, regs_done, presence_log,
                   script>>

\* unregister_client, lines 439-456: UserLeft, or the refresh sentinel while
\* the user keeps another connection.
UnregisterBroadcast(c) ==
    /\ handler[c].pc = "unreg_broadcast"
    /\ LET dev == handler[c].dev
           user == IF handler[c].still THEN RefreshUser
                   ELSE handler[c].removed.user_id
       IN /\ Send(broadcast_event(dev,
                 Item(dev, 0, "userLeft", c, "live", user), c))
          /\ presence_log' = Logged([dev |-> dev, event |-> "userLeft",
                                      user_id |-> user, sender |-> c])
          /\ UnregisterDone(c, dev)
    /\ UNCHANGED <<connVars, mgrVars, sender_closed, debug_added, command_log,
                   device_events, active_connections,
                   max_debug_messages_per_device, max_cap_seen, next_event_id,
                   producer, regs_done>>

\* The channel closes (websocket.rs:183-186, 197-215): unregister from every
\* device of the list.
Close(c) ==
    /\ handler[c].pc = "idle"
    /\ MayStart(c, "close", "d1")
    /\ IF registered_devices[c] = <<>>
       THEN /\ handler' = [handler EXCEPT ![c].pc = "closed"]
            /\ script' = ScriptAfter(c)
       ELSE /\ handler' = [handler EXCEPT ![c].pc = "closing",
                                          ![c].closing = TRUE]
            /\ script' = script
    /\ NoSend
    /\ UNCHANGED <<connVars, mgrVars, sender_closed, debug_added, command_log,
                   device_events, active_connections,
                   max_debug_messages_per_device, max_cap_seen, next_event_id,
                   producer, registered_devices, regs_done, presence_log>>

\* A deviceEvent message with one event (websocket.rs:601-687): rejected
\* unless the device is in the channel's list.  A command is routed to the
\* device manager, which sends it and then calls add_event with the command
\* as the event (esp32_manager.rs:422-452); any other event goes to
\* add_event at once.  add_event gets the channel's client_id as origin; this
\* is the call up to its push (device_store.rs:183-233).
Command == "Esp32Command"

ClientKinds == {VariableUpdate}

\* A check that lets every message pass.
AlwaysRegistered(registered, device_id) == TRUE

\* registered_devices.contains(&device_id), websocket.rs:615.
IsRegistered(registered, device_id) == device_id \in Range(registered)

ClientEventPush(c, dev, kind) ==
    /\ handler[c].pc = "idle"
    /\ MayStart(c, "event", dev)
    /\ IsRegistered(registered_devices[c], dev)
    /\ next_event_id - DebugPushed <= MaxEvents
    /\ command_log' = IF kind = Command
                      THEN Append(command_log, [client_id |-> c, dev |-> dev])
                      ELSE command_log
    /\ device_events' = [device_events EXCEPT ![dev] =
           store_event(@, [id |-> next_event_id, kind |-> kind, origin |-> c],
                       0)]
    /\ handler' = [handler EXCEPT ![c] =
           [IdleHandler EXCEPT !.pc = "ev_broadcast", !.dev = dev,
                               !.kind = kind, !.id = next_event_id]]
    /\ next_event_id' = next_event_id + 1
    /\ NoSend
    /\ UNCHANGED <<connVars, mgrVars, sender_closed, debug_added,
                   active_connections, max_debug_messages_per_device,
                   max_cap_seen, producer, registered_devices, regs_done,
                   presence_log, script>>

\* The message is rejected: handle_device_events returns the error
\* (websocket.rs:615-618) and the message loop answers with the error
\* message (websocket.rs:169-180).
ClientEventRejected(c, dev) ==
    /\ handler[c].pc = "idle"
    /\ MayStart(c, "event", dev)
    /\ ~IsRegistered(registered_devices[c], dev)
    /\ Send([Silent EXCEPT ![c] =
                <<Item("error", 0, "error", c, "status", "")>>])
    /\ UNCHANGED <<connVars, mgrVars, sender_closed, debug_added, command_log,
                   device_events, active_connections,
                   max_debug_messages_per_device, max_cap_seen, next_event_id,
                   producer, handler, registered_devices, regs_done,
                   presence_log, script>>

\* The outgoing task of a channel ends because its write to the socket
\* failed (websocket.rs:127-141): the receiver of the channel's sender is
\* dropped.
OutgoingTaskEnds(c) ==
    /\ c \notin sender_closed
    /\ handler[c].pc # "closed"
    /\ sender_closed' = sender_closed \cup {c}
    /\ NoSend
    /\ UNCHANGED <<connVars, mgrVars, debug_added, command_log,
                   device_events, active_connections,
                   max_debug_messages_per_device, max_cap_seen, next_event_id,
                   producer, handler, registered_devices, regs_done,
                   presence_log, script>>

\* cleanup_stale_connections (device_store.rs:608-641), the periodic task of
\* websocket.rs:832-843: the connections whose sender is closed are dropped
\* from every list.
cleanup_stale_connections ==
    /\ LET Open(conn) == conn.client_id \notin sender_closed
       IN  active_connections' = [d \in StoreDevices |->
               SelectSeq(active_connections[d], Open)]
    /\ NoSend
    /\ UNCHANGED <<connVars, mgrVars, sender_closed, debug_added, command_log,
                   device_events, max_debug_messages_per_device, max_cap_seen,
                   next_event_id, producer, handler, registered_devices,
                   regs_done, presence_log, script>>

\* add_event, lines 235-242, for the channel's own event.
ClientEventBroadcast(c) ==
    /\ handler[c].pc = "ev_broadcast"
    /\ Send(broadcast_event(handler[c].dev,
           Item(handler[c].dev, handler[c].id, handler[c].kind, c,
                "live", ""),
           c))
    /\ handler' = [handler EXCEPT ![c] = IdleHandler]
    /\ UNCHANGED <<connVars, mgrVars, sender_closed, debug_added, command_log,
                   device_events, active_connections,
                   max_debug_messages_per_device, max_cap_seen, next_event_id,
                   producer, registered_devices, regs_done, presence_log,
                   script>>

\* ------------------------------------------------------------------------
\* The TCP session of the device (esp32_connection.rs)
\* ------------------------------------------------------------------------
Disconnected == "Disconnected"
Connecting == "Connecting"
Connected == "Connected"

NoMark == 0 - 1

NoReturn == [op |-> "none", ok |-> TRUE, reset |-> FALSE,
             was |-> Disconnected, sent |-> <<>>, dials |-> 0, writes |-> 0]

\* dials and writes are filled in by send_command: the calls of connect_tcp
\* and of write_all it made.
Return(op, ok, reset, was, sent) ==
    [op |-> op, ok |-> ok, reset |-> reset, was |-> was, sent |-> sent,
     dials |-> 0, writes |-> 0]

\* event_sender.send(event) on the session's channel.
SendStatus(queues, connected) ==
    [queues EXCEPT ![Len(queues)] = Append(@, connected)]

\* The channels whose forwarding task still has something to forward.
Draining(queues) == LET Pending(q) == q # <<>> IN SelectSeq(queues, Pending)

\* Nothing is in flight: no event waits in a channel, no handler of an
\* inbound frame and no monitor pass is between its steps, no call holds the
\* session.
Quiet ==
    /\ \A i \in 1..Len(event_queues) : event_queues[i] = <<>>
    /\ tcp_tasks = [spawned |-> 0, emitting |-> 0]
    /\ udp_listener = "idle"
    /\ timeout_monitor = "idle"
    /\ session_lock = "none"

ClearMarks == reset_mark' = NoMark /\ reattach' = "none"

\* device_store.add_event with a ConnectionStatus event of the device.
add_status_event(connected) == status_log' = Append(status_log, connected)

\* send_command with a second dial: a failed dial is tried again until the
\* handle is there, and the command is written on it.
send_command_retrying(is_reset_command, write_ok, dial_ok) ==
    /\ session_lock = "none"
    /\ ops_done < MaxOps
    /\ ops_done' = ops_done + 1
    /\ tcp_stream' = TRUE
    /\ connection_state' = IF tcp_stream THEN connection_state ELSE Connected
    /\ event_queues' = IF tcp_stream THEN event_queues
                       ELSE SendStatus(event_queues, TRUE)
    /\ returned' =
           [Return("send_command", dial_ok, is_reset_command,
                   connection_state, IF tcp_stream THEN <<>> ELSE <<TRUE>>)
               EXCEPT !.dials = IF tcp_stream THEN 0
                                ELSE IF dial_ok THEN 1 ELSE 2,
                      !.writes = 1]
    /\ reset_mark' = NoMark
    /\ reattach' = "none"
    /\ UNCHANGED <<storeVars, mgrVars, frameVars, monitor_emits,
                   reader_tasks, shutdown_sender, session_lock,
                   ip_to_device_id, unified_connection_states,
                   unified_activity_tracker, tcp_tasks, udp_listener,
                   timeout_monitor, status_log>>

\* Esp32Connection::send_command under the session's mutex
\* (esp32_manager.rs:361-373).  write_ok: do write_all and flush succeed;
\* dial_ok: does connect_tcp succeed when there is no handle.
send_command(is_reset_command, write_ok, dial_ok) ==
    /\ session_lock = "none"
    /\ ops_done < MaxOps
    /\ ops_done' = ops_done + 1
    /\ LET was == connection_state
           \* lines 193-248: the handle is there
           with_stream ==
               IF ~write_ok
               THEN /\ UNCHANGED <<connection_state, tcp_stream>>
                    /\ returned' =
                           [Return("send_command", is_reset_command,
                                   is_reset_command, was, <<>>)
                               EXCEPT !.writes = 1]
                    /\ ClearMarks
               ELSE /\ tcp_stream' = ~is_reset_command
                    /\ connection_state' = IF is_reset_command THEN Connecting
                                           ELSE connection_state
                    /\ returned' =
                           [Return("send_command", TRUE, is_reset_command,
                                   was, <<>>)
                               EXCEPT !.writes = 1]
                    /\ reattach' = "none"
                    /\ reset_mark' = IF is_reset_command /\ was = Connected
                                        /\ Quiet
                                     THEN Len(status_log) ELSE NoMark
           \* lines 249-329: no handle, one reconnect attempt
           without_stream ==
               IF ~dial_ok
               THEN /\ UNCHANGED <<connection_state, tcp_stream, reset_mark,
                                   reattach>>
                    /\ returned' =
                           [Return("send_command", FALSE, is_reset_command,
                                   was, <<>>)
                               EXCEPT !.dials = 1]
               ELSE /\ tcp_stream' = ~(write_ok /\ is_reset_command)
                    /\ connection_state' =
                           IF write_ok /\ is_reset_command THEN Connecting
                           ELSE Connected
                    /\ returned' =
                           [Return("send_command", write_ok,
                                   is_reset_command, was, <<TRUE>>)
                               EXCEPT !.dials = 1, !.writes = 1]
                    /\ IF reset_mark # NoMark /\ reattach = "none"
                       THEN reattach' = "command" /\ reset_mark' = reset_mark
                       ELSE ClearMarks
       IN  /\ IF tcp_stream THEN with_stream ELSE without_stream
           /\ event_queues' = IF ~tcp_stream /\ dial_ok
                              THEN SendStatus(event_queues, TRUE)
                              ELSE event_queues
    /\ UNCHANGED <<storeVars, mgrVars, frameVars, monitor_emits,
                   reader_tasks, shutdown_sender, session_lock,
                   ip_to_device_id, unified_connection_states,
                   unified_activity_tracker, tcp_tasks, udp_listener,
                   timeout_monitor, status_log>>

\* Esp32Manager::connect_device up to the return of Esp32Connection::connect
\* (esp32_manager.rs:186-273, esp32_connection.rs:70-127), under the
\* manager's connection mutex and the session's mutex.
connect(dial_ok) ==
    /\ session_lock = "none"
    /\ ops_done < MaxOps
    /\ ops_done' = ops_done + 1
    /\ IF connection_state = Connected
       THEN \* lines 201-205: already connected
            /\ returned' = Return("connect_device", TRUE, FALSE, Connected,
                                  <<>>)
            /\ ClearMarks
            /\ UNCHANGED <<connection_state, tcp_stream, reader_tasks,
                           shutdown_sender, event_queues, session_lock>>
       ELSE LET \* lines 211-251: a disconnected session is replaced by a new
                \* one with a new channel and forwarding task
                needs_recreation == connection_state = Disconnected
                queues == IF needs_recreation
                          THEN Append(Draining(event_queues), <<>>)
                          ELSE event_queues
                readers == IF needs_recreation THEN 0 ELSE reader_tasks
            IN  /\ IF dial_ok
                   THEN /\ connection_state' = Connected
                        /\ tcp_stream' = TRUE
                        /\ reader_tasks' = readers + 1
                        /\ shutdown_sender' = TRUE
                        /\ event_queues' = SendStatus(queues, TRUE)
                        /\ session_lock' = "connect_device"
                        /\ returned' = NoReturn
                   ELSE /\ connection_state' = Connecting
                        /\ tcp_stream' = (tcp_stream /\ ~needs_recreation)
                        /\ reader_tasks' = readers
                        /\ shutdown_sender' =
                               (shutdown_sender /\ ~needs_recreation)
                        /\ event_queues' = queues
                        /\ session_lock' = "none"
                        /\ returned' = Return("connect_device", FALSE, FALSE,
                                              connection_state, <<>>)
                /\ IF reset_mark # NoMark /\ reattach = "none"
                   THEN UNCHANGED <<reset_mark, reattach>>
                   ELSE ClearMarks
    /\ UNCHANGED <<storeVars, mgrVars, frameVars, monitor_emits,
                   ip_to_device_id, unified_connection_states,
                   unified_activity_tracker, tcp_tasks, udp_listener,
                   timeout_monitor, status_log>>

\* Esp32Manager::connect_device after connect returned Ok
\* (esp32_manager.rs:275-327): routing, activity tracking, the connected
\* flag, and a ConnectionStatus event of the manager's own.
connect_device ==
    /\ session_lock = "connect_device"
    /\ timeout_monitor = "idle"
    /\ ip_to_device_id' = TRUE
    /\ unified_activity_tracker' = "fresh"
    /\ unified_connection_states' = TRUE
    /\ add_status_event(TRUE)
    /\ session_lock' = "none"
    /\ returned' = Return("connect_device", TRUE, FALSE, connection_state,
                          <<TRUE, TRUE>>)
    /\ reattach' = IF reset_mark # NoMark THEN "connect_device" ELSE "none"
    /\ UNCHANGED <<storeVars, mgrVars, frameVars, monitor_emits,
                   connection_state, tcp_stream, reader_tasks,
                   shutdown_sender, event_queues, tcp_tasks, udp_listener,
                   timeout_monitor, ops_done, reset_mark>>

\* Esp32Manager::disconnect_device with Esp32Connection::disconnect
\* (esp32_manager.rs:335-358, esp32_connection.rs:130-170).
disconnect_device ==
    /\ session_lock = "none"
    /\ timeout_monitor = "idle"
    /\ ops_done < MaxOps
    /\ ops_done' = ops_done + 1
    /\ ip_to_device_id' = FALSE
    /\ reader_tasks' = IF shutdown_sender THEN reader_tasks - 1
                       ELSE reader_tasks
    /\ shutdown_sender' = FALSE
    /\ tcp_stream' = FALSE
    /\ connection_state' = Disconnected
    /\ event_queues' = SendStatus(event_queues, FALSE)
    /\ returned' = Return("disconnect_device", TRUE, FALSE, connection_state,
                          <<FALSE>>)
    /\ ClearMarks
    /\ UNCHANGED <<storeVars, mgrVars, frameVars, monitor_emits,
                   session_lock, unified_connection_states,
                   unified_activity_tracker, tcp_tasks, udp_listener,
                   timeout_monitor, status_log>>

\* The forwarding task of channel i (esp32_manager.rs:505-516, 524-576):
\* its next event goes to add_event; it ends when its session is gone and
\* nothing is left.
forwarding_task(i) ==
    /\ event_queues[i] # <<>>
    /\ add_status_event(Head(event_queues[i]))
    /\ event_queues' =
           IF i < Len(event_queues) /\ Len(event_queues[i]) = 1
           THEN [k \in 1..(Len(event_queues) - 1) |->
                    IF k < i THEN event_queues[k] ELSE event_queues[k + 1]]
           ELSE [event_queues EXCEPT ![i] = Tail(@)]
    /\ returned' = NoReturn
    /\ UNCHANGED <<storeVars, mgrVars, frameVars, monitor_emits,
                   connection_state, tcp_stream, reader_tasks,
                   shutdown_sender, session_lock, ip_to_device_id,
                   unified_connection_states, unified_activity_tracker,
                   tcp_tasks, udp_listener, timeout_monitor, ops_done,
                   reset_mark, reattach>>

\* A reader task reads 0 bytes: the peer closed (esp32_connection.rs:432-436).
ReaderEof ==
    /\ tcp_stream
    /\ reader_tasks > 0
    /\ tcp_stream' = FALSE
    /\ returned' = Return("reader_eof", TRUE, FALSE, connection_state, <<>>)
    /\ ClearMarks
    /\ UNCHANGED <<storeVars, mgrVars, frameVars, monitor_emits,
                   connection_state, reader_tasks, shutdown_sender,
                   event_queues, session_lock, ip_to_device_id,
                   unified_connection_states, unified_activity_tracker,
                   tcp_tasks, udp_listener, timeout_monitor, status_log,
                   ops_done>>

\* A reader task's read fails with an I/O error (esp32_connection.rs:470-474):
\* it logs, sleeps and reads again.
ReaderError ==
    /\ tcp_stream
    /\ reader_tasks > 0
    /\ returned' = Return("reader_error", TRUE, FALSE, connection_state, <<>>)
    /\ ClearMarks
    /\ UNCHANGED <<storeVars, mgrVars, frameVars, monitor_emits,
                   connection_state, tcp_stream, reader_tasks,
                   shutdown_sender, event_queues, session_lock,
                   ip_to_device_id, unified_connection_states,
                   unified_activity_tracker, tcp_tasks, udp_listener,
                   timeout_monitor, status_log, ops_done>>

\* A reader task extracts a frame and spawns its handler
\* (esp32_connection.rs:437-468).
ReaderFrame ==
    /\ tcp_stream
    /\ reader_tasks > 0
    /\ ops_done < MaxOps
    /\ ops_done' = ops_done + 1
    /\ tcp_tasks' = [tcp_tasks EXCEPT !.spawned = @ + 1]
    /\ returned' = NoReturn
    /\ ClearMarks
    /\ UNCHANGED <<storeVars, mgrVars, frameVars, monitor_emits,
                   connection_state, tcp_stream, reader_tasks,
                   shutdown_sender, event_queues, session_lock,
                   ip_to_device_id, unified_connection_states,
                   unified_activity_tracker, udp_listener, timeout_monitor,
                   status_log>>

\* handle_message_unified for a TCP frame, lines 711-745: the device's type
\* is registered already (add_device), TCP does not touch the activity
\* tracker; the connected flag is tested and set.
TcpTestAndSet ==
    /\ tcp_tasks.spawned > 0
    /\ tcp_tasks' = [spawned |-> tcp_tasks.spawned - 1,
                     emitting |-> IF unified_connection_states
                                  THEN tcp_tasks.emitting
                                  ELSE tcp_tasks.emitting + 1]
    /\ unified_connection_states' = TRUE
    /\ returned' = NoReturn
    /\ ClearMarks
    /\ UNCHANGED <<storeVars, mgrVars, frameVars, monitor_emits,
                   connection_state, tcp_stream, reader_tasks,
                   shutdown_sender, event_queues, session_lock,
                   ip_to_device_id, unified_activity_tracker, udp_listener,
                   timeout_monitor, status_log, ops_done>>

\* handle_message_unified, lines 748-771: the connected event of a handler
\* that found the flag unset.
TcpEmit ==
    /\ tcp_tasks.emitting > 0
    /\ tcp_tasks' = [tcp_tasks EXCEPT !.emitting = @ - 1]
    /\ add_status_event(TRUE)
    /\ returned' = NoReturn
    /\ ClearMarks
    /\ UNCHANGED <<storeVars, mgrVars, frameVars, monitor_emits,
                   connection_state, tcp_stream, reader_tasks,
                   shutdown_sender, event_queues, session_lock,
                   ip_to_device_id, unified_connection_states,
                   unified_activity_tracker, udp_listener, timeout_monitor,
                   ops_done>>

\* The central UDP listener receives a datagram from the device's routed
\* address (esp32_manager.rs:616-639) and runs handle_message_unified up to
\* the test of the connected flag (lines 711-745).  Datagrams from addresses
\* that are not routed belong to no device of the model (lines 640-669).
UdpTestAndSet ==
    /\ udp_listener = "idle"
    /\ timeout_monitor = "idle"
    /\ ip_to_device_id
    /\ ops_done < MaxOps
    /\ ops_done' = ops_done + 1
    /\ unified_activity_tracker' = "fresh"
    /\ unified_connection_states' = TRUE
    /\ udp_listener' = IF unified_connection_states THEN "idle" ELSE "emit"
    /\ monitor_emits' = 0
    /\ returned' = NoReturn
    /\ ClearMarks
    /\ UNCHANGED <<storeVars, mgrVars, frameVars,
                   connection_state, tcp_stream, reader_tasks,
                   shutdown_sender, event_queues, session_lock,
                   ip_to_device_id, tcp_tasks, timeout_monitor, status_log>>

\* handle_message_unified, lines 748-771, in the UDP listener.
UdpEmit ==
    /\ udp_listener = "emit"
    /\ udp_listener' = "idle"
    /\ add_status_event(TRUE)
    /\ returned' = NoReturn
    /\ ClearMarks
    /\ UNCHANGED <<storeVars, mgrVars, frameVars, monitor_emits,
                   connection_state, tcp_stream, reader_tasks,
                   shutdown_sender, event_queues, session_lock,
                   ip_to_device_id, unified_connection_states,
                   unified_activity_tracker, tcp_tasks, timeout_monitor,
                   ops_done>>

\* More than udp_timeout_seconds pass since the tracker entry was written.
TimePasses ==
    /\ unified_activity_tracker = "fresh"
    /\ unified_activity_tracker' = "stale"
    /\ returned' = NoReturn
    /\ UNCHANGED <<storeVars, mgrVars, frameVars, monitor_emits,
                   connection_state, tcp_stream, reader_tasks,
                   shutdown_sender, event_queues, session_lock,
                   ip_to_device_id, unified_connection_states, tcp_tasks,
                   udp_listener, timeout_monitor, status_log, ops_done,
                   reset_mark, reattach>>

\* A pass of the liveness monitor that finds the device timed out
\* (esp32_manager.rs:1113-1156), holding the configs and tracker locks.
MonitorTestAndClear ==
    /\ timeout_monitor = "idle"
    /\ unified_activity_tracker = "stale"
    /\ IF unified_connection_states
       THEN /\ unified_connection_states' = FALSE
            /\ timeout_monitor' = "emit"
            /\ UNCHANGED unified_activity_tracker
       ELSE /\ unified_activity_tracker' = "absent"
            /\ UNCHANGED <<unified_connection_states, timeout_monitor>>
    /\ returned' = NoReturn
    /\ ClearMarks
    /\ UNCHANGED <<storeVars, mgrVars, frameVars, monitor_emits,
                   connection_state, tcp_stream, reader_tasks,
                   shutdown_sender, event_queues, session_lock,
                   ip_to_device_id, tcp_tasks, udp_listener, status_log,
                   ops_done>>

\* esp32_manager.rs:1158-1183: the disconnect event, then the tracker entry
\* is removed.
MonitorEmit ==
    /\ timeout_monitor = "emit"
    /\ add_status_event(FALSE)
    /\ unified_activity_tracker' = "absent"
    /\ timeout_monitor' = "idle"
    /\ monitor_emits' = IF monitor_emits = NoMark THEN NoMark
                        ELSE monitor_emits + 1
    /\ returned' = NoReturn
    /\ ClearMarks
    /\ UNCHANGED <<storeVars, mgrVars, frameVars,
                   connection_state, tcp_stream, reader_tasks,
                   shutdown_sender, event_queues, session_lock,
                   ip_to_device_id, unified_connection_states, tcp_tasks,
                   udp_listener, ops_done>>

\* After add_device (esp32_manager.rs:96-156, esp32_connection.rs:51-61).
\* ------------------------------------------------------------------------
\* The reader's frame accumulator (esp32_connection.rs:437-469, 500-534)
\* ------------------------------------------------------------------------
\* Bytes are written as one-character strings, the two bytes of a two-byte
\* UTF-8 character as "C3" and "A9"; decoded text has "U+E9" for that
\* character and "U+FFFD" for the replacement character.
MaxParts == 2

\* {"key":1}
Obj(key) == <<"{", "\"">> \o key \o <<"\"", ":", "1", "}">>

\* Well-formed JSON objects: empty, plain, with a brace or an escaped quote
\* inside a string, with a two-byte character, and nested.
JsonObjects ==
    {<<"{", "}">>, Obj(<<"a">>), Obj(<<"}">>), Obj(<<"{">>),
     Obj(<<"\\", "\"">>), Obj(<<"C3", "A9">>),
     <<"{", "\"", "a", "\"", ":", "{", "}", "}">>}

\* Fragments that are no JSON: an unbalanced closing brace, a stray byte.
Fragments == {<<"}">>, <<"x">>}

Streams ==
    UNION {[1..n -> JsonObjects \cup Fragments] : n \in 1..MaxParts}

RECURSIVE Flatten(_)
Flatten(parts) ==
    IF parts = <<>> THEN <<>> ELSE Head(parts) \o Flatten(Tail(parts))

\* String::from_utf8_lossy (line 439): a complete character is decoded, a
\* lead byte without its continuation byte and a continuation byte without
\* its lead byte become the replacement character.
RECURSIVE from_utf8_lossy(_)
from_utf8_lossy(bytes) ==
    IF bytes = <<>> THEN <<>>
    ELSE IF Head(bytes) = "C3"
    THEN IF Len(bytes) >= 2 /\ bytes[2] = "A9"
         THEN <<"U+E9">> \o from_utf8_lossy(SubSeq(bytes, 3, Len(bytes)))
         ELSE <<"U+FFFD">> \o from_utf8_lossy(Tail(bytes))
    ELSE IF Head(bytes) = "A9"
    THEN <<"U+FFFD">> \o from_utf8_lossy(Tail(bytes))
    ELSE <<Head(bytes)>> \o from_utf8_lossy(Tail(bytes))

\* str::trim_start (line 501)
RECURSIVE trim_start(_)
trim_start(text) ==
    IF text # <<>> /\ Head(text) = " " THEN trim_start(Tail(text)) ELSE text

\* The loop of extract_complete_json (lines 510-531) from character i on:
\* the index of the closing brace that brings the count to 0, or 0.
RECURSIVE ScanFrom(_, _, _, _, _)
ScanFrom(text, i, bracket_count, in_string, escape_next) ==
    IF i > Len(text) THEN 0
    ELSE IF escape_next
    THEN ScanFrom(text, i + 1, bracket_count, in_string, FALSE)
    ELSE IF text[i] = "\\" /\ in_string
    THEN ScanFrom(text, i + 1, bracket_count, in_string, TRUE)
    ELSE IF text[i] = "\""
    THEN ScanFrom(text, i + 1, bracket_count, ~in_string, FALSE)
    ELSE IF text[i] = "{" /\ ~in_string
    THEN ScanFrom(text, i + 1, bracket_count + 1, in_string, FALSE)
    ELSE IF text[i] = "}" /\ ~in_string
    THEN IF bracket_count - 1 = 0 THEN i
         ELSE ScanFrom(text, i + 1, bracket_count - 1, in_string, FALSE)
    ELSE ScanFrom(text, i + 1, bracket_count, in_string, FALSE)

\* extract_complete_json (lines 500-534): the frame (<<>> for None) and the
\* buffer after the call.
extract_complete_json(buffer) ==
    LET text == trim_start(buffer)
        i == ScanFrom(text, 1, 0, FALSE, FALSE)
    IN  IF i = 0 THEN [json |-> <<>>, buffer |-> buffer]
        ELSE [json |-> SubSeq(text, 1, i),
              buffer |-> SubSeq(text, i + 1, Len(text))]

\* while let Some(json_str) = extract_complete_json(...) (lines 450-451):
\* the frames taken out of the buffer, and what stays in it.
RECURSIVE Extracted(_)
Extracted(buffer) ==
    LET first == extract_complete_json(buffer)
    IN  IF first.json = <<>> THEN [frames |-> <<>>, buffer |-> buffer]
        ELSE LET more == Extracted(first.buffer)
             IN  [frames |-> <<first.json>> \o more.frames,
                  buffer |-> more.buffer]

\* The reader task reads n bytes (lines 425-467): the decoded text is added
\* to the buffer, every complete frame is taken out and a handler is spawned
\* for it.
ReaderRead(n) ==
    /\ tcp_stream
    /\ reader_tasks > 0
    /\ n \in 1..Len(wire)
    /\ LET message == from_utf8_lossy(SubSeq(wire, 1, n))
           out == Extracted(tcp_buffer \o message)
       IN  /\ wire' = SubSeq(wire, n + 1, Len(wire))
           /\ tcp_buffer' = out.buffer
           /\ frames' = frames \o out.frames
           /\ tcp_tasks' = [tcp_tasks EXCEPT !.spawned = @ + Len(out.frames)]
    /\ returned' = NoReturn
    /\ ClearMarks
    /\ UNCHANGED <<storeVars, mgrVars, stream_parts, monitor_emits,
                   connection_state, tcp_stream, reader_tasks,
                   shutdown_sender, event_queues, session_lock,
                   ip_to_device_id, unified_connection_states,
                   unified_activity_tracker, udp_listener, timeout_monitor,
                   status_log, ops_done>>

InitSession ==
    /\ connection_state = Disconnected
    /\ tcp_stream = FALSE
    /\ reader_tasks = 0
    /\ shutdown_sender = FALSE
    /\ event_queues = <<<<>>>>
    /\ session_lock = "none"
    /\ ip_to_device_id = FALSE
    /\ unified_connection_states = FALSE
    /\ unified_activity_tracker = "absent"
    /\ tcp_tasks = [spawned |-> 0, emitting |-> 0]
    /\ udp_listener = "idle"
    /\ timeout_monitor = "idle"
    /\ status_log = <<>>
    /\ ops_done = 0
    /\ returned = NoReturn
    /\ reset_mark = NoMark
    /\ reattach = "none"
    /\ monitor_emits = NoMark

\* The device sends nothing on the session's connection.
InitConn ==
    /\ InitSession
    /\ stream_parts = <<>>
    /\ wire = <<>>
    /\ tcp_buffer = <<>>
    /\ frames = <<>>

NextConn ==
    \/ \E dial_ok \in BOOLEAN : connect(dial_ok)
    \/ connect_device
    \/ disconnect_device
    \/ \E is_reset_command, write_ok, dial_ok \in BOOLEAN :
           send_command(is_reset_command, write_ok, dial_ok)
    \/ \E i \in 1..Len(event_queues) : forwarding_task(i)
    \/ ReaderEof
    \/ ReaderError
    \/ ReaderFrame
    \/ TcpTestAndSet
    \/ TcpEmit
    \/ UdpTestAndSet
    \/ UdpEmit
    \/ TimePasses
    \/ MonitorTestAndClear
    \/ MonitorEmit

\* ------------------------------------------------------------------------
\* The manager's registries and discovery (esp32_manager.rs,
\* esp32_discovery.rs, uart_connection.rs)
\* ------------------------------------------------------------------------
DeviceIds == {"e1", "e2"}

\* The id extract_device_id_from_tcp_message returns for every datagram that
\* looks like a TCP frame (esp32_manager.rs:1063-1067).
BypassDevice == "e1"

NoType == "none"
TcpUdp == "TcpUdp"
Uart == "Uart"

\* The first type an id got is remembered.
TypeHistory ==
    first_type' = [x \in DeviceIds |->
        IF first_type[x] = NoType THEN device_connection_types'[x]
        ELSE first_type[x]]

\* How the id first appeared is remembered, anew after a removal.
Entered(d, how) ==
    entered_by' = IF entered_by[d] \in {"none", "removed"}
                  THEN [entered_by EXCEPT ![d] = how]
                  ELSE entered_by

\* Esp32Manager::add_device (esp32_manager.rs:96-156) looks for the id's
\* session under a read lock of the session map; this is the call for an id
\* that has one (lines 103-114): only the configuration is replaced.
add_device_existing(d) ==
    /\ d \in connections
    /\ device_configs' = device_configs \cup {d}

\* The rest of the call for an id that had no session at the check
\* (lines 117-151), the lock released since: the configuration is stored, the
\* id is registered as a TCP/UDP device, and a fresh session is inserted
\* into the session map under the id.
add_device_create(d) ==
    /\ device_configs' = device_configs \cup {d}
    /\ device_connection_types' =
           [device_connection_types EXCEPT ![d] = TcpUdp]
    /\ connections' = connections \cup {d}
    /\ sessions' = [sessions EXCEPT
           ![d] = [made |-> @.made + 1, connected |-> FALSE]]
    /\ TypeHistory

\* handle_message_unified (esp32_manager.rs:696-794): the type is registered
\* unless the id has one, UART and UDP frames write the last-seen entry, the
\* connected flag is set, and the frame is stored in the id's own history.
handle_message_unified(d, device_type, should_track_activity) ==
    /\ device_connection_types' =
           IF device_connection_types[d] = NoType
           THEN [device_connection_types EXCEPT ![d] = device_type]
           ELSE device_connection_types
    /\ activity_tracker' = IF should_track_activity
                           THEN activity_tracker \cup {d}
                           ELSE activity_tracker
    /\ connection_states' = [connection_states EXCEPT ![d] = "true"]
    /\ stored_for' = stored_for \cup {d}
    /\ TypeHistory

\* A client registers for an id that has no configuration and is not a UART
\* device (websocket.rs:371-426, 481-500): the handler calls add_device,
\* which checks for the id's session.
ClientAddsDevice(d) ==
    /\ frames_done < MaxFrames
    /\ frames_done' = frames_done + 1
    /\ d \notin device_configs
    /\ device_connection_types[d] # Uart
    /\ IF d \in connections
       THEN add_device_existing(d) /\ UNCHANGED add_calls
       ELSE /\ add_calls' = [add_calls EXCEPT ![d] = @ + 1]
            /\ UNCHANGED device_configs
    /\ Entered(d, "config")
    /\ UNCHANGED <<storeVars, connVars, sessions, device_connection_types,
                   connections, discovered_devices, connection_states,
                   activity_tracker, mdns_threads, uart_tasks, system_events,
                   stored_for, first_type>>

\* The handler's add_device call goes on after its check.
ClientAddCreates(d) ==
    /\ add_calls[d] > 0
    /\ add_calls' = [add_calls EXCEPT ![d] = @ - 1]
    /\ add_device_create(d)
    /\ UNCHANGED <<storeVars, connVars, discovered_devices, connection_states,
                   activity_tracker, mdns_threads, uart_tasks, system_events,
                   stored_for, entered_by, frames_done>>

\* mDNS resolves a device: the callback records it and starts a thread
\* (esp32_discovery.rs:79-128).
MdnsResolved(d) ==
    /\ frames_done < MaxFrames
    /\ frames_done' = frames_done + 1
    /\ mdns_threads[d] = "idle"
    /\ mdns_threads' = [mdns_threads EXCEPT ![d] = "broadcast"]
    /\ discovered_devices' = discovered_devices \cup {d}
    /\ Entered(d, "mdns")
    /\ UNCHANGED <<storeVars, connVars, add_calls, sessions, device_connection_types, connections,
                   device_configs, connection_states, activity_tracker,
                   uart_tasks, system_events, stored_for, first_type>>

\* The thread hands DeviceDiscovered to broadcast_event for the device
\* "system" (esp32_discovery.rs:162-176): sent to its subscribers, of which
\* there are none here, and stored nowhere.
MdnsBroadcast(d) ==
    /\ mdns_threads[d] = "broadcast"
    /\ mdns_threads' = [mdns_threads EXCEPT ![d] = "add"]
    /\ UNCHANGED <<storeVars, connVars, add_calls, sessions, device_connection_types, connections,
                   device_configs, discovered_devices, connection_states,
                   activity_tracker, uart_tasks, system_events, stored_for,
                   entered_by, first_type, frames_done>>

\* The thread adds the device to the manager (esp32_discovery.rs:181-191):
\* add_device checks for the id's session.
MdnsAdd(d) ==
    /\ mdns_threads[d] = "add"
    /\ IF d \in connections
       THEN /\ add_device_existing(d)
            /\ mdns_threads' = [mdns_threads EXCEPT ![d] = "idle"]
       ELSE /\ mdns_threads' = [mdns_threads EXCEPT ![d] = "create"]
            /\ UNCHANGED device_configs
    /\ UNCHANGED <<storeVars, connVars, add_calls, sessions,
                   device_connection_types, connections, discovered_devices,
                   connection_states, activity_tracker, uart_tasks,
                   system_events, stored_for, entered_by, first_type,
                   frames_done>>

\* The thread's add_device call goes on after its check.
MdnsAddCreates(d) ==
    /\ mdns_threads[d] = "create"
    /\ mdns_threads' = [mdns_threads EXCEPT ![d] = "idle"]
    /\ add_device_create(d)
    /\ UNCHANGED <<storeVars, connVars, add_calls, discovered_devices,
                   connection_states, activity_tracker, uart_tasks,
                   system_events, stored_for, entered_by, frames_done>>

\* The UART listener extracts a frame that names the id and spawns its
\* handler (uart_connection.rs:201-221).
UartSpawn(d) ==
    /\ frames_done < MaxFrames
    /\ frames_done' = frames_done + 1
    /\ uart_tasks' = [uart_tasks EXCEPT ![d].spawned = @ + 1]
    /\ Entered(d, "uart")
    /\ UNCHANGED <<storeVars, connVars, add_calls, sessions, device_connection_types, connections,
                   device_configs, discovered_devices, connection_states,
                   activity_tracker, mdns_threads, system_events, stored_for,
                   first_type>>

\* handle_uart_message, lines 282-285: is the id new to the connected flags?
UartCheck(d) ==
    /\ uart_tasks[d].spawned > 0
    /\ uart_tasks' =
           IF connection_states[d] = "absent"
           THEN [uart_tasks EXCEPT ![d].spawned = @ - 1,
                                   ![d].discover = @ + 1]
           ELSE [uart_tasks EXCEPT ![d].spawned = @ - 1,
                                   ![d].unified = @ + 1]
    /\ UNCHANGED <<storeVars, connVars, add_calls, sessions, device_connection_types, connections,
                   device_configs, discovered_devices, connection_states,
                   activity_tracker, mdns_threads, system_events, stored_for,
                   entered_by, first_type, frames_done>>

\* handle_uart_message, lines 288-314: DeviceDiscovered goes through
\* add_event into the history of "system".
UartDiscover(d) ==
    /\ uart_tasks[d].discover > 0
    /\ uart_tasks' = [uart_tasks EXCEPT ![d].discover = @ - 1,
                                        ![d].unified = @ + 1]
    /\ system_events' = Append(system_events, d)
    /\ UNCHANGED <<storeVars, connVars, add_calls, sessions, device_connection_types, connections,
                   device_configs, discovered_devices, connection_states,
                   activity_tracker, mdns_threads, stored_for, entered_by,
                   first_type, frames_done>>

\* handle_uart_message, lines 316-332: the frame goes to the unified handler.
UartUnified(d) ==
    /\ uart_tasks[d].unified > 0
    /\ uart_tasks' = [uart_tasks EXCEPT ![d].unified = @ - 1]
    /\ handle_message_unified(d, Uart, TRUE)
    /\ UNCHANGED <<storeVars, connVars, add_calls, sessions, connections, device_configs,
                   discovered_devices, mdns_threads, system_events,
                   entered_by, frames_done>>

\* A frame of the id arrives over the network: a TCP frame on its session
\* (esp32_manager.rs:1027-1048), a datagram from its routed address
\* (lines 616-639), or a datagram from an address that is not routed and
\* looks like a TCP frame (lines 640-669).
NetFrame(d, udp) ==
    /\ frames_done < MaxFrames
    /\ frames_done' = frames_done + 1
    /\ d \in connections \/ (udp /\ d = BypassDevice)
    /\ handle_message_unified(d, TcpUdp, udp)
    /\ Entered(d, "frame")
    /\ UNCHANGED <<storeVars, connVars, add_calls, sessions, connections, device_configs,
                   discovered_devices, mdns_threads, uart_tasks,
                   system_events>>

\* connect_device succeeds for an id that has a session
\* (esp32_manager.rs:275-325): last-seen entry, connected flag, and a
\* ConnectionStatus event in the id's own history.
DeviceConnects(d) ==
    /\ frames_done < MaxFrames
    /\ frames_done' = frames_done + 1
    /\ d \in connections
    /\ sessions' = [sessions EXCEPT ![d].connected = TRUE]
    /\ activity_tracker' = activity_tracker \cup {d}
    /\ connection_states' = [connection_states EXCEPT ![d] = "true"]
    /\ stored_for' = stored_for \cup {d}
    /\ UNCHANGED <<storeVars, connVars, add_calls, device_connection_types,
                   connections, device_configs, discovered_devices,
                   mdns_threads, uart_tasks, system_events, entered_by,
                   first_type>>

\* Esp32Manager::remove_device (esp32_manager.rs:159-183): the session, if
\* there is one, is disconnected, which stores a ConnectionStatus event in
\* the id's history; the id leaves the session map and the configurations.
\* The last-seen entry, the connected flag and the type stay.  The removal
\* is remembered when no add_device call, mDNS thread or UART handler of the
\* id was under way.
remove_device(d) ==
    /\ frames_done < MaxFrames
    /\ frames_done' = frames_done + 1
    /\ stored_for' = IF d \in connections THEN stored_for \cup {d}
                     ELSE stored_for
    /\ connections' = connections \ {d}
    /\ device_configs' = device_configs \ {d}
    /\ sessions' = [sessions EXCEPT ![d].connected = FALSE]
    /\ entered_by' =
           IF /\ add_calls[d] = 0
              /\ mdns_threads[d] = "idle"
              /\ uart_tasks[d] = [spawned |-> 0, discover |-> 0,
                                  unified |-> 0]
           THEN [entered_by EXCEPT ![d] = "removed"]
           ELSE entered_by
    /\ UNCHANGED <<storeVars, connVars, add_calls, device_connection_types,
                   discovered_devices, connection_states, activity_tracker,
                   mdns_threads, uart_tasks, system_events, first_type>>

\* A pass of the liveness monitor (esp32_manager.rs:1113-1186): every id
\* with a last-seen entry gets a configuration; the ids of timed_out are
\* marked disconnected, with a ConnectionStatus event if they were
\* connected, and lose their entry.
MonitorPass(timed_out) ==
    /\ timed_out \subseteq activity_tracker
    /\ activity_tracker # {}
    /\ device_configs' = device_configs \cup activity_tracker
    /\ connection_states' = [x \in DeviceIds |->
           IF x \in timed_out /\ connection_states[x] = "true" THEN "false"
           ELSE connection_states[x]]
    /\ stored_for' = stored_for \cup
           {x \in timed_out : connection_states[x] = "true"}
    /\ activity_tracker' = activity_tracker \ timed_out
    /\ UNCHANGED <<storeVars, connVars, add_calls, sessions, device_connection_types, connections,
                   discovered_devices, mdns_threads, uart_tasks,
                   system_events, entered_by, first_type, frames_done>>

InitMgr ==
    /\ device_connection_types = [d \in DeviceIds |-> NoType]
    /\ connections = {}
    /\ device_configs = {}
    /\ discovered_devices = {}
    /\ connection_states = [d \in DeviceIds |-> "absent"]
    /\ activity_tracker = {}
    /\ mdns_threads = [d \in DeviceIds |-> "idle"]
    /\ uart_tasks = [d \in DeviceIds |->
                        [spawned |-> 0, discover |-> 0, unified |-> 0]]
    /\ system_events = <<>>
    /\ stored_for = {}
    /\ entered_by = [d \in DeviceIds |-> "none"]
    /\ first_type = [d \in DeviceIds |-> NoType]
    /\ frames_done = 0
    /\ add_calls = [d \in DeviceIds |-> 0]
    /\ sessions = [d \in DeviceIds |-> [made |-> 0, connected |-> FALSE]]

NextMgr ==
    \/ \E d \in DeviceIds : ClientAddsDevice(d)
    \/ \E d \in DeviceIds : MdnsResolved(d)
    \/ \E d \in DeviceIds : MdnsBroadcast(d)
    \/ \E d \in DeviceIds : MdnsAdd(d)
    \/ \E d \in DeviceIds : MdnsAddCreates(d)
    \/ \E d \in DeviceIds : ClientAddCreates(d)
    \/ \E d \in DeviceIds : UartSpawn(d)
    \/ \E d \in DeviceIds : UartCheck(d)
    \/ \E d \in DeviceIds : UartDiscover(d)
    \/ \E d \in DeviceIds : UartUnified(d)
    \/ \E d \in DeviceIds, udp \in BOOLEAN : NetFrame(d, udp)
    \/ \E d \in DeviceIds : DeviceConnects(d)
    \/ \E d \in DeviceIds : remove_device(d)
    \/ \E timed_out \in SUBSET DeviceIds : MonitorPass(timed_out)

\* ------------------------------------------------------------------------
\* Lock discipline: what each operation acquires, in the order of its code
\* ------------------------------------------------------------------------
\* Tasks that may be inside an operation at the same time.
MaxTasks == 3

\* A step names the lock by the field that holds it; "session" is the
\* Arc<Mutex<Esp32Connection>> of the device's entry in connections
\* (esp32_manager.rs:146, 246). A Mutex is taken with "lock", an RwLock with
\* "read" or "write".
\* A guard bound to a name that lives on while more is acquired.
Hold(act, lock) == [act |-> act, lock |-> lock]

\* A guard taken and dropped in a block of its own, or a temporary.
Once(act, lock) == [act |-> act \o "_once", lock |-> lock]

\* The guard goes out of scope or is dropped.
Release(lock) == [act |-> "release", lock |-> lock]

\* connection.send_message on the sender of a subscriber's channel.
ChannelSend == [act |-> "send", lock |-> "channel"]

\* device_store.rs:549-600: the read guard on the subscriber map lives for
\* the whole loop over the subscribers, the sends included.
broadcast_event_locks ==
    <<Hold("read", "active_connections"), ChannelSend,
      Release("active_connections")>>

\* device_store.rs:176-245: the limit is read with a temporary guard (194),
\* the history is written in a block (209-233) and then the event is
\* broadcast (236).
add_event_locks ==
    <<Once("read", "max_debug_messages_per_device"),
      Once("write", "device_events")>> \o broadcast_event_locks

\* device_store.rs:248-262.
get_device_events_locks == <<Once("read", "device_events")>>

\* The nested variant of register_client: the history is read before the
\* guard on the subscriber map is dropped.
register_client_nested ==
    <<Hold("write", "active_connections")>> \o get_device_events_locks
        \o <<Release("active_connections")>> \o broadcast_event_locks

\* device_store.rs:292-392: the block under the write guard (301-366), the
\* presence broadcast (370-383), the history for the replay (386).
register_client_locks ==
    <<Once("write", "active_connections")>> \o broadcast_event_locks
        \o get_device_events_locks

\* device_store.rs:395-462: the block under the write guard (399-425), the
\* check under a read guard (429-437), the presence broadcast (439-456).
unregister_client_locks ==
    <<Once("write", "active_connections"),
      Once("read", "active_connections")>> \o broadcast_event_locks

\* device_store.rs:608-641.
cleanup_stale_connections_locks == <<Once("write", "active_connections")>>

\* device_store.rs:644-659: both guards are bound at the top and live until
\* the function returns.
get_stats_locks ==
    <<Hold("read", "device_events"), Hold("read", "active_connections"),
      Release("active_connections"), Release("device_events")>>

\* esp32_manager.rs:96-116: the device has a session; the config is
\* replaced under the read guard on connections.
add_device_existing_locks ==
    <<Hold("read", "connections"), Once("write", "device_configs"),
      Release("connections")>>

\* esp32_manager.rs:96-156: the device has no session; each registry is
\* written in a block of its own.
add_device_create_locks ==
    <<Once("read", "connections"), Once("write", "device_configs"),
      Once("write", "device_connection_types"),
      Once("write", "connections")>>

\* esp32_connection.rs:70-127 with connect_tcp (337-397): connect sets
\* Connecting (76), connect_tcp stores the stream (384) and sets Connected
\* (390); each guard in a block of its own.
session_connect_locks ==
    <<Once("write", "connection_state"), Once("lock", "tcp_stream"),
      Once("write", "connection_state")>>

\* esp32_manager.rs:186-207: the session is found Connected and the call
\* returns at once.
connect_device_connected_locks ==
    <<Hold("lock", "connection_mutex"), Hold("read", "connections"),
      Hold("lock", "session"), Once("read", "connection_state"),
      Release("session"), Release("connections"),
      Release("connection_mutex")>>

\* esp32_manager.rs:186-332: the session is found disconnected, is recreated
\* (225-248) and connects; the read guard on connections (253) and the
\* session's guard (258) live until the function returns, across the
\* registries' blocks (277-297) and add_event (300-315).
connect_device_locks ==
    <<Hold("lock", "connection_mutex"), Hold("read", "connections"),
      Hold("lock", "session"), Once("read", "connection_state"),
      Release("session"), Release("connections"),
      Once("read", "device_configs"), Once("write", "connections"),
      Hold("read", "connections"), Hold("lock", "session")>>
        \o session_connect_locks
        \o <<Once("read", "device_configs"), Once("write", "ip_to_device_id"),
             Once("write", "unified_activity_tracker"),
             Once("write", "unified_connection_states")>>
        \o add_event_locks
        \o <<Release("session"), Release("connections"),
             Release("connection_mutex")>>

\* esp32_manager.rs:335-358 with the session's disconnect
\* (esp32_connection.rs:130-170: the stream at 140, the state at 150).
disconnect_device_locks ==
    <<Hold("read", "connections"), Hold("lock", "session"),
      Once("read", "device_configs"), Once("write", "ip_to_device_id"),
      Once("lock", "tcp_stream"), Once("write", "connection_state"),
      Release("session"), Release("connections")>>

\* esp32_manager.rs:159-183.
remove_device_locks ==
    disconnect_device_locks
        \o <<Once("write", "connections"), Once("write", "device_configs")>>

\* esp32_manager.rs:422-452 (handle_websocket_command): send_command
\* (360-374) under the session's guard, where the session holds its stream
\* while it marks itself failed (esp32_connection.rs:193-246), then
\* add_event for the command.
send_command_locks ==
    <<Hold("read", "connections"), Hold("lock", "session"),
      Hold("lock", "tcp_stream"), Once("write", "connection_state"),
      Release("tcp_stream"), Release("session"), Release("connections")>>
        \o add_event_locks

\* esp32_manager.rs:696-794: the registries in blocks of their own (718,
\* 729, 736), the status event (763), the raw message (785) and the parsed
\* message (793, 822).
handle_message_unified_locks ==
    <<Once("write", "device_connection_types"),
      Once("write", "unified_activity_tracker"),
      Once("write", "unified_connection_states")>>
        \o add_event_locks \o add_event_locks \o add_event_locks

\* esp32_manager.rs:612-640: a datagram of a known address is handled under
\* the socket's guard and the read guard on the address map.
udp_ingress_locks ==
    <<Hold("lock", "central_udp_socket"), Hold("read", "ip_to_device_id")>>
        \o handle_message_unified_locks
        \o <<Release("ip_to_device_id"), Release("central_udp_socket")>>

\* esp32_connection.rs:423-472: the reader appends and extracts under the
\* stream's guard; the frames are handled by tasks of their own.
tcp_ingress_locks ==
    <<Hold("lock", "tcp_stream"), Once("lock", "tcp_buffer"),
      Hold("lock", "tcp_buffer"), Release("tcp_buffer"),
      Release("tcp_stream")>>

\* uart_connection.rs:178-254: the reader reads under the write guard on
\* the serial stream; the messages are handled by tasks of their own.
uart_ingress_locks ==
    <<Hold("write", "serial_stream"), Release("serial_stream")>>

\* uart_connection.rs:267-343 (handle_uart_message).
uart_message_locks ==
    <<Once("read", "unified_connection_states")>> \o add_event_locks
        \o handle_message_unified_locks

\* websocket.rs:655-659 with uart_connection.rs:345-392.
uart_send_command_locks ==
    <<Hold("lock", "uart_connection"), Hold("write", "serial_stream"),
      Release("serial_stream"), Release("uart_connection")>>

\* esp32_manager.rs:1110-1186: one pass of the monitor holds the write guards
\* on the configs and on the activity tracker from its top (1115, 1116) to
\* its end, across the state's block (1144) and add_event (1168).
timeout_monitor_locks ==
    <<Hold("write", "device_configs"),
      Hold("write", "unified_activity_tracker"),
      Once("write", "unified_connection_states")>>
        \o add_event_locks
        \o <<Release("unified_activity_tracker"),
             Release("device_configs")>>

lock_programs ==
    [add_event |-> add_event_locks,
     register_client |-> register_client_locks,
     unregister_client |-> unregister_client_locks,
     cleanup_stale_connections |-> cleanup_stale_connections_locks,
     get_stats |-> get_stats_locks,
     add_device_existing |-> add_device_existing_locks,
     add_device_create |-> add_device_create_locks,
     connect_device_connected |-> connect_device_connected_locks,
     connect_device |-> connect_device_locks,
     disconnect_device |-> disconnect_device_locks,
     remove_device |-> remove_device_locks,
     send_command |-> send_command_locks,
     udp_ingress |-> udp_ingress_locks,
     tcp_ingress |-> tcp_ingress_locks,
     tcp_message |-> handle_message_unified_locks,
     uart_ingress |-> uart_ingress_locks,
     uart_message |-> uart_message_locks,
     uart_send_command |-> uart_send_command_locks,
     timeout_monitor |-> timeout_monitor_locks]

LockOps == DOMAIN lock_programs

\* The guards alive after the first n steps of a program.
RECURSIVE HeldAfter(_, _)
HeldAfter(program, n) ==
    IF n = 0 THEN {}
    ELSE LET before == HeldAfter(program, n - 1)
             step == program[n]
         IN  CASE step.act \in {"read", "write", "lock"} ->
                      before \cup {step}
               [] step.act = "release" ->
                      {h \in before : h.lock # step.lock}
               [] OTHER -> before

held_at ==
    [op \in LockOps |->
        [pc \in 1..Len(lock_programs[op]) |->
            HeldAfter(lock_programs[op], pc - 1)]]

\* The tasks inside an operation, each a position in a lock program; the
\* tasks are interchangeable, so they form a bag of positions.
InFlight == BagToSet(lock_tasks)

\* The guards a task at position x holds, and the step it is about to take.
Holds(x) == held_at[x.op][x.pc]

CurrentStep(x) == lock_programs[x.op][x.pc]

WaitsToWrite(x, lock) ==
    /\ CurrentStep(x).lock = lock
    /\ CurrentStep(x).act \in {"write", "write_once"}

\* tokio's RwLock is fair (write-preferring): a reader is admitted when no
\* writer holds the lock and none is queued for it; a writer, and the taker
\* of a Mutex, when nobody holds it.
Granted(x) ==
    LET step == CurrentStep(x)
    IN  CASE step.act \in {"read", "read_once"} ->
                 /\ \A y \in InFlight : \A h \in Holds(y) :
                        h.lock = step.lock => h.act = "read"
                 /\ \A y \in InFlight : ~WaitsToWrite(y, step.lock)
          [] step.act \in {"write", "write_once", "lock", "lock_once"} ->
                 \A y \in InFlight : \A h \in Holds(y) : h.lock # step.lock
          [] OTHER -> TRUE

otherVars ==
    <<device_events, active_connections, max_debug_messages_per_device,
      max_cap_seen, next_event_id, producer, handler, registered_devices,
      regs_done, channel, delivered, presence_log, script, sender_closed,
      debug_added, command_log, pair, connVars, mgrVars>>

\* A task enters an operation: it stands before the operation's first step.
BeginOperation(op) ==
    /\ BagCardinality(lock_tasks) < MaxTasks
    /\ lock_tasks' = lock_tasks (+) SetToBag({[op |-> op, pc |-> 1]})
    /\ UNCHANGED otherVars

\* A task takes its next step when the lock it asks for is granted; after
\* its last step the operation has returned.
TaskStep(x) ==
    /\ BagIn(x, lock_tasks)
    /\ Granted(x)
    /\ lock_tasks' =
           IF x.pc = Len(lock_programs[x.op])
           THEN lock_tasks (-) SetToBag({x})
           ELSE (lock_tasks (-) SetToBag({x}))
                    (+) SetToBag({[x EXCEPT !.pc = @ + 1]})
    /\ UNCHANGED otherVars

NextLocks ==
    \/ \E op \in LockOps : BeginOperation(op)
    \/ \E x \in InFlight : TaskStep(x)

\* ------------------------------------------------------------------------
\* Specifications
\* ------------------------------------------------------------------------
\* No register/unregister pair has begun.
NoPair == [stage |-> "setup", dev |-> "d1", before |-> <<>>, sent |-> Silent]

InitStore ==
    /\ device_events = [d \in StoreDevices |-> <<>>]
    /\ active_connections = [d \in StoreDevices |-> <<>>]
    /\ next_event_id = 1
    /\ producer = [p \in ProducerIds |-> IdleProducer]
    /\ handler = [c \in Clients |-> IdleHandler]
    /\ registered_devices = [c \in Clients |-> <<>>]
    /\ regs_done = 0
    /\ channel = Silent
    /\ delivered = [c \in Clients |-> [d \in StoreDevices |-> <<>>]]
    /\ presence_log = <<>>
    /\ sender_closed = {}
    /\ debug_added = [d \in StoreDevices |-> <<>>]
    /\ command_log = <<>>
    /\ pair = NoPair
    /\ lock_tasks = EmptyBag

Init == InitStore /\ InitConn /\ InitMgr
                  /\ max_debug_messages_per_device = MaxCap
                  /\ max_cap_seen = MaxCap /\ script = NoScript

\* Device-side events of the fan-out: a status event and one other kind.
FanoutKinds == {ConnectionStatus, VariableUpdate}

ClientStep(CS) ==
    \/ \E c \in CS, dev \in StoreDevices, sub \in SubscriptionType :
           RegisterInsert(c, dev, sub)
    \/ \E c \in CS : RegisterBroadcast(c)
    \/ \E c \in CS : RegisterSnapshot(c)
    \/ \E c \in CS, direct_status \in BOOLEAN :
           RegisterReplay(c, direct_status)
    \/ \E c \in CS, dev \in StoreDevices : UnregisterRemove(c, dev)
    \/ \E c \in CS : UnregisterCheck(c)
    \/ \E c \in CS : UnregisterBroadcast(c)
    \/ \E c \in CS : Close(c)
    \/ \E c \in CS : CloseNext(c)

\* The fan-out: two channels of different users, a device-side producer and
\* the channels' own events.
FanoutClients == {"c1", "c3"}

FanoutProducers == {"p1"}

Next ==
    /\ UNCHANGED <<pair, lock_tasks>>
    /\ \/ \E p \in FanoutProducers, dev \in StoreDevices, kind \in FanoutKinds :
              ProducerAdd(p, dev, kind)
       \/ \E p \in FanoutProducers : ProducerBroadcast(p)
       \/ ClientStep(FanoutClients)
       \/ \E c \in FanoutClients, dev \in StoreDevices, kind \in ClientKinds :
              ClientEventPush(c, dev, kind)
       \/ \E c \in FanoutClients : ClientEventBroadcast(c)

Spec == Init /\ [][Next]_vars

\* Retention: concurrent add_event calls, debug messages among them, and
\* changes of the limit; nobody is subscribed.
NextCap ==
    /\ UNCHANGED <<pair, lock_tasks>>
    /\ \/ \E max \in 1..MaxCap : set_max_debug_messages(max)
       \/ \E p \in ProducerIds, dev \in StoreDevices : ProducerReadLimit(p, dev)
       \/ \E p \in ProducerIds : ProducerPush(p)
       \/ \E p \in ProducerIds, dev \in StoreDevices :
              ProducerAdd(p, dev, VariableUpdate)
       \/ \E p \in ProducerIds : ProducerBroadcast(p)

InitCap ==
    /\ InitStore
    /\ InitConn
    /\ InitMgr
    /\ script = NoScript
    /\ max_debug_messages_per_device \in 1..MaxCap
    /\ max_cap_seen = max_debug_messages_per_device

SpecCap == InitCap /\ [][NextCap]_vars

\* Retention under a limit that nobody changes.
NextFixedCap ==
    /\ UNCHANGED <<pair, lock_tasks>>
    /\ \/ \E p \in ProducerIds, dev \in StoreDevices : ProducerReadLimit(p, dev)
       \/ \E p \in ProducerIds : ProducerPush(p)
       \/ \E p \in ProducerIds, dev \in StoreDevices :
              ProducerAdd(p, dev, VariableUpdate)
       \/ \E p \in ProducerIds : ProducerBroadcast(p)

SpecFixedCap == InitCap /\ [][NextFixedCap]_vars

\* The colours: three channels, two of them of one user, whose outgoing
\* tasks may end, and the periodic cleanup.
NextColor ==
    /\ UNCHANGED <<pair, lock_tasks>>
    /\ \/ ClientStep(Clients)
       \/ \E c \in Clients : OutgoingTaskEnds(c)
       \/ cleanup_stale_connections

SpecColor == Init /\ [][NextColor]_vars

\* The check of deviceEvent messages: two channels that register, unregister
\* and close, and send events and commands for either device.
GateKinds == {VariableUpdate, Command}

NextGate ==
    /\ UNCHANGED <<pair, lock_tasks>>
    /\ \/ ClientStep(FanoutClients)
       \/ \E c \in FanoutClients, dev \in StoreDevices, kind \in GateKinds :
              ClientEventPush(c, dev, kind)
       \/ \E c \in FanoutClients : ClientEventBroadcast(c)
       \/ \E c \in FanoutClients, dev \in StoreDevices :
              ClientEventRejected(c, dev)

SpecGate == Init /\ [][NextGate]_vars

\* register_client immediately followed by unregister_client: after the other
\* channels (a tab of the same user and a channel of another user) have
\* registered, unregistered and closed as they like and have come to rest,
\* a channel that was never registered registers for a device and then
\* unregisters from it, with no step of another channel in between.
PairClient == "c2"

PairOthers == Clients \ {PairClient}

\* What the latest step sent is added to the pair's record; the stage moves
\* on when the handler has finished its message.
PairRecorded(next_stage) ==
    pair' = [pair EXCEPT
                !.sent = [x \in Clients |-> @[x] \o channel'[x]],
                !.stage = IF handler'[PairClient].pc = "idle"
                          THEN next_stage ELSE @]

PairSetup ==
    /\ pair.stage = "setup"
    /\ ClientStep(PairOthers)
    /\ UNCHANGED pair

PairBegin ==
    /\ pair.stage = "setup"
    /\ \A x \in PairOthers : handler[x].pc \in {"idle", "closed"}
    /\ \E dev \in StoreDevices, sub \in SubscriptionType :
           /\ RegisterInsert(PairClient, dev, sub)
           /\ pair' = [stage |-> "register", dev |-> dev,
                       before |-> active_connections[dev], sent |-> Silent]

PairRegister ==
    /\ pair.stage = "register"
    /\ \/ RegisterBroadcast(PairClient)
       \/ RegisterSnapshot(PairClient)
       \/ \E direct_status \in BOOLEAN :
              RegisterReplay(PairClient, direct_status)
    /\ PairRecorded("unregister")

PairUnregister ==
    /\ pair.stage = "unregister"
    /\ \/ UnregisterRemove(PairClient, pair.dev)
       \/ UnregisterCheck(PairClient)
       \/ UnregisterBroadcast(PairClient)
    /\ PairRecorded("done")

NextPair ==
    /\ UNCHANGED lock_tasks
    /\ \/ PairSetup
       \/ PairBegin
       \/ PairRegister
       \/ PairUnregister

SpecPair == Init /\ [][NextPair]_vars

\* The multi-tab scenario: c1 and c2, two tabs of user u1, register for d1 one
\* after the other and then close one after the other, each step completing
\* before the next; the channel of another user does what it likes.
InitS4 == InitStore /\ InitConn /\ InitMgr
                    /\ max_debug_messages_per_device = MaxCap
                    /\ max_cap_seen = MaxCap /\ script = 0

NextS4 == ClientStep(Clients) /\ UNCHANGED <<pair, lock_tasks>>

SpecS4 == InitS4 /\ [][NextS4]_vars

\* The frame accumulator: the device sends a stream of objects and fragments
\* on the connection of a session that connects; the reader reads it in
\* chunks of any size.
InitFrames ==
    /\ InitStore
    /\ InitSession
    /\ InitMgr
    /\ max_debug_messages_per_device = MaxCap
    /\ max_cap_seen = MaxCap
    /\ script = NoScript
    /\ stream_parts \in Streams
    /\ wire = Flatten(stream_parts)
    /\ tcp_buffer = <<>>
    /\ frames = <<>>

NextFrames ==
    \/ \E dial_ok \in BOOLEAN : connect(dial_ok)
    \/ \E n \in 1..Len(wire) : ReaderRead(n)

SpecFrames == InitFrames /\ [][NextFrames]_vars

\* Presence: the two tabs of one user register, unregister and close on
\* either device as they like, their calls interleaved; the presence history
\* is kept.
PresenceClients == {"c1", "c2"}

InitPresence == InitStore /\ InitConn /\ InitMgr
                          /\ max_debug_messages_per_device = MaxCap
                          /\ max_cap_seen = MaxCap /\ script = FreeLogged

NextPresence == ClientStep(PresenceClients) /\ UNCHANGED <<pair, lock_tasks>>

SpecPresence == InitPresence /\ [][NextPresence]_vars

\* Leaving: two channels of different users register, unregister and close;
\* a channel's outgoing task may end, and the periodic cleanup runs.  The
\* presence history is kept.  A handler that has begun a call goes on with
\* it, and the cleanup task keeps running (websocket.rs:832-843).
LeaveClients == {"c1", "c3"}

NextLeave ==
    /\ UNCHANGED <<pair, lock_tasks>>
    /\ \/ ClientStep(LeaveClients)
       \/ \E c \in LeaveClients : OutgoingTaskEnds(c)
       \/ cleanup_stale_connections

\* The histories outside the store's steps stay as they are.
Frozen == UNCHANGED <<pair, lock_tasks>>

FairLeave ==
    /\ \A c \in LeaveClients :
           /\ WF_vars(RegisterBroadcast(c) /\ Frozen)
           /\ WF_vars(RegisterSnapshot(c) /\ Frozen)
           /\ WF_vars(Frozen /\ \E direct_status \in BOOLEAN :
                                    RegisterReplay(c, direct_status))
           /\ WF_vars(UnregisterCheck(c) /\ Frozen)
           /\ WF_vars(UnregisterBroadcast(c) /\ Frozen)
           /\ WF_vars(CloseNext(c) /\ Frozen)
    /\ WF_vars(cleanup_stale_connections /\ Frozen)

SpecLeave == InitPresence /\ [][NextLeave]_vars /\ FairLeave

\* The device's session and the manager, nobody subscribed.
SpecConn == Init /\ [][NextConn]_vars

\* The registries and discovery, nobody subscribed.
SpecMgr == Init /\ [][NextMgr]_vars

\* The locks: tasks enter the operations of the manager and of the store
\* and step through what they acquire and release.
SpecLocks == Init /\ [][NextLocks]_vars

\* ------------------------------------------------------------------------
\* Properties of the event store
\* ------------------------------------------------------------------------
IsSubscriber(c, dev, sub) ==
    \E conn \in Range(active_connections[dev]) :
        conn.client_id = c /\ conn.subscription_type = sub

\* C3 as stated: for every device the number of retained RawBroadcast events
\* is at most the currently configured cap.
RetainedWithinCurrentCap ==
    \A d \in StoreDevices :
        debug_count(device_events[d]) <= max_debug_messages_per_device

\* C3: for every device the number of retained RawBroadcast events is at most
\* the largest cap configured so far (caps are at least 1): lowering the cap
\* does not truncate, and an add_event enforces the cap it read.
RetainedWithinLargestCap ==
    \A d \in StoreDevices : debug_count(device_events[d]) <= max_cap_seen

\* An add_event evicted the oldest debug message under a lowered cap.
EvictedUnderLoweredCap ==
    /\ max_debug_messages_per_device < max_cap_seen
    /\ \E d \in StoreDevices :
           /\ debug_count(device_events[d]) = max_debug_messages_per_device
           /\ debug_count(device_events[d]) = Len(device_events[d])
           /\ \A e \in StoreDevices \ {d} : device_events[e] = <<>>
           /\ Len(device_events[d]) < next_event_id - 1

\* C4: whatever is sent to a channel registered for a device with
\* subscription type Light, for that device, is a ConnectionStatus event.
LightReceivesOnlyStatus ==
    \A c \in Clients : \A i \in 1..Len(channel[c]) :
        IsSubscriber(c, channel[c][i].dev, Light)
            => channel[c][i].kind = ConnectionStatus

\* C5: whatever is sent to a channel for a device D is sent while the channel
\* holds a subscription for D: its connection is listed for D, and its handler
\* is inside registerForDevice(D) or has D in its list of registered devices.
OnlyWhileSubscribed ==
    \A c \in Clients : \A i \in 1..Len(channel[c]) :
        LET dev == channel[c][i].dev
        IN  /\ \E conn \in Range(active_connections[dev]) : conn.client_id = c
            /\ \/ dev \in Range(registered_devices[c])
               \/ /\ handler[c].pc \in {"reg_broadcast", "reg_snapshot"}
                  /\ handler[c].dev = dev

\* c1 received events of d1, gave the subscription up, and the latest step
\* broadcast a later event of d1 to c3 and nothing to c1.
BroadcastAfterUnsubscribe ==
    /\ delivered["c1"]["d1"] # <<>>
    /\ handler["c1"].pc = "idle"
    /\ "d1" \notin Range(registered_devices["c1"])
    /\ channel["c1"] = <<>>
    /\ \E i \in 1..Len(channel["c3"]) :
           /\ channel["c3"][i].dev = "d1"
           /\ channel["c3"][i].path = "live"
           /\ channel["c3"][i].id > 0

\* C6 as stated: nothing sent to a channel has the channel's own client_id as
\* origin.
NoOwnEvents ==
    \A c \in Clients : \A i \in 1..Len(channel[c]) :
        channel[c][i].origin # c

\* C6: no live broadcast sends an event to the channel whose client_id is the
\* event's origin (the replay batch is not filtered by origin).
NoOwnLiveEvents ==
    \A c \in Clients : \A i \in 1..Len(channel[c]) :
        channel[c][i].path = "live" => channel[c][i].origin # c

\* The latest step broadcast an event of c1 to c3 and skipped c1, which is a
\* full subscriber of the event's device.
OwnEventSkipped ==
    /\ channel["c1"] = <<>>
    /\ \E i \in 1..Len(channel["c3"]) :
           /\ channel["c3"][i].origin = "c1"
           /\ channel["c3"][i].id > 0
           /\ IsSubscriber("c1", channel["c3"][i].dev, Full)

\* C7: on every channel the stored events of a device are sent in the order
\* of their insertion into the device's history (ids ascend in that order).
DeliveredInInsertionOrder ==
    \A c \in Clients, d \in StoreDevices :
        \A i, j \in 1..Len(delivered[c][d]) :
            i < j => delivered[c][d][i] <= delivered[c][d][j]

\* The presence events the two scripted tabs handed to broadcast_event.
ScriptLog ==
    LET ByTab(entry) == entry.sender \in ScriptClients
    IN  SelectSeq(presence_log, ByTab)

ExpectedLog ==
    <<[dev |-> "d1", event |-> "userJoined", user_id |-> "u1", sender |-> "c1"],
      [dev |-> "d1", event |-> "userJoined", user_id |-> RefreshUser,
       sender |-> "c2"],
      [dev |-> "d1", event |-> "userLeft", user_id |-> RefreshUser,
       sender |-> "c1"],
      [dev |-> "d1", event |-> "userLeft", user_id |-> "u1", sender |-> "c2"]>>

ScriptEnd == Len(ExpectedLog)

\* C8: in the multi-tab scenario each completed step has broadcast exactly
\* one presence event: registering T1 a real UserJoined, registering T2 a
\* USER_COUNT_REFRESH join, closing T1 a USER_COUNT_REFRESH leave, closing T2
\* a real UserLeft; a step in progress has broadcast at most its own one.
MultiTabPresence ==
    /\ Len(ScriptLog) \in {script, script + 1}
    /\ Len(ScriptLog) <= ScriptEnd
    /\ ScriptLog = SubSeq(ExpectedLog, 1, Len(ScriptLog))
    /\ (\A c \in ScriptClients : handler[c].pc \in {"idle", "closed"})
           => Len(ScriptLog) = script

\* The four steps of the scenario are complete.
MultiTabDone == script = ScriptEnd /\ Len(ScriptLog) = ScriptEnd

\* ------------------------------------------------------------------------
\* Properties of the session and the manager
\* ------------------------------------------------------------------------
\* C1: no two consecutive ConnectionStatus events of the device carry the
\* same connected value.
StatusAlternates ==
    \A i \in 1..(Len(status_log) - 1) : status_log[i] # status_log[i + 1]

\* C2: when nothing is in flight, a session in state Connected has a last
\* ConnectionStatus event with connected = true, and a session in state
\* Disconnected with any ConnectionStatus event so far has a last one with
\* connected = false.
StatusMatchesSession ==
    Quiet =>
        /\ connection_state = Connected
               => status_log # <<>> /\ status_log[Len(status_log)]
        /\ connection_state = Disconnected /\ status_log # <<>>
               => ~status_log[Len(status_log)]

\* C9: when send(reset) returns success on a session that was Connected, the
\* handle is dropped, the state is Connecting, and the call sent no
\* ConnectionStatus with connected = false.
ResetKeepsSessionForReattach ==
    (/\ returned.op = "send_command"
     /\ returned.reset
     /\ returned.ok
     /\ returned.was = Connected)
        => /\ ~tcp_stream
           /\ connection_state = Connecting
           /\ \A i \in 1..Len(returned.sent) : returned.sent[i]

\* C10: once a reset has been sent to the connected device and the device
\* has re-attached, through connect_device or through the next command, and
\* nothing is in flight, exactly one ConnectionStatus event with
\* connected = true and none with connected = false has been emitted for
\* the device since the reset.
ReattachEmitsOneStatus ==
    (reattach # "none" /\ Quiet)
        => /\ Len(status_log) = reset_mark + 1
           /\ status_log[Len(status_log)]

\* C11: after a datagram of the device, the liveness monitor emits at most one
\* ConnectionStatus{connected:false} for it until its next datagram arrives.
MonitorEmitsOncePerDatagram == monitor_emits <= 1

\* C12: when the reader of a session that is Connected has observed the
\* peer's close or a read error, the session is no longer Connected and a
\* ConnectionStatus{connected:false} has been emitted.
ReaderFailureDisconnects ==
    (returned.op \in {"reader_eof", "reader_error"} /\ returned.was = Connected)
        => (connection_state # Connected /\ FALSE \in Range(returned.sent))

\* C20: disconnect_device emits ConnectionStatus{connected:false} exactly
\* when the session was Connected before the call.
DisconnectEmitsIffConnected ==
    returned.op = "disconnect_device"
        => ((FALSE \in Range(returned.sent)) <=> (returned.was = Connected))

\* ------------------------------------------------------------------------
\* Properties of the registries and discovery
\* ------------------------------------------------------------------------
\* C16: an id keeps the connection type it got first.
ConnectionTypeImmutable ==
    \A d \in DeviceIds :
        first_type[d] # NoType => device_connection_types[d] = first_type[d]

\* C17: an id that first appeared through discovery (mDNS resolution or a
\* UART frame) has its DeviceDiscovered event in the history of "system"
\* whenever its own history holds an event.
DiscoveredBeforeOwnEvents ==
    \A d \in DeviceIds :
        (entered_by[d] \in {"mdns", "uart"} /\ d \in stored_for)
            => d \in Range(system_events)

\* ------------------------------------------------------------------------
\* Properties of the retention
\* ------------------------------------------------------------------------
\* The ids of the retained debug messages, in history order.
DebugIds(events) ==
    LET sel == SelectSeq(events, IsDebug)
    IN  [i \in 1..Len(sel) |-> sel[i].id]

LastN(s, n) == SubSeq(s, Len(s) - n + 1, Len(s))

\* C13: under a limit N that does not change, after k debug messages were
\* pushed into a device's history the retained ones are the min(N, k) pushed
\* last, in the order of their pushes.
RetainedAreMostRecent ==
    \A d \in StoreDevices :
        LET k == Len(debug_added[d])
            N == max_debug_messages_per_device
        IN  DebugIds(device_events[d]) =
                LastN(debug_added[d], IF k < N THEN k ELSE N)

\* A push at a limit of two or more evicted the oldest of several retained
\* debug messages.
EvictedOldestOfSeveral ==
    /\ max_debug_messages_per_device >= 2
    /\ \E d \in StoreDevices :
           /\ Len(debug_added[d]) > max_debug_messages_per_device
           /\ debug_count(device_events[d]) = max_debug_messages_per_device

\* C14: a change of the limit leaves every history as it is; and when a
\* history holds more debug messages than the limit, an add_event that read
\* this limit evicts the oldest debug message, and only it, on its push.
LoweredCapEvictsOne ==
    [][/\ max_debug_messages_per_device' # max_debug_messages_per_device
           => device_events' = device_events
       /\ \A p \in ProducerIds :
              LET d == producer[p].dev
              IN  (/\ producer[p].pc = "push"
                   /\ producer'[p].pc = "broadcast"
                   /\ producer[p].max_debug = max_debug_messages_per_device
                   /\ debug_count(device_events[d])
                          > max_debug_messages_per_device)
                  => DebugIds(device_events'[d]) =
                         Append(Tail(DebugIds(device_events[d])),
                                producer'[p].id)]_vars

\* After the limit was lowered below what a history holds, an add_event that
\* read the lowered limit has pushed: one debug message was evicted, the
\* history still holds more than the limit.
PushedUnderLoweredCap ==
    \E p \in ProducerIds :
        LET d == producer[p].dev
        IN  /\ producer[p].pc = "broadcast"
            /\ producer[p].kind = RawBroadcast
            /\ producer[p].max_debug = max_debug_messages_per_device
            /\ debug_count(device_events[d]) > max_debug_messages_per_device
            /\ Len(debug_added[d]) > debug_count(device_events[d])
            /\ debug_added[d][Len(debug_added[d])] = producer[p].id

\* ------------------------------------------------------------------------
\* Properties of the subscriber lists
\* ------------------------------------------------------------------------
\* Has the client registered for the device and not unregistered since?
Registered(c, d) ==
    \E conn \in Range(active_connections[d]) : conn.client_id = c

Users == {user_of(c) : c \in Clients}

\* The colours of the connections a user has on a device.
UserColors(d, u) ==
    {conn.user_color : conn \in {x \in Range(active_connections[d]) :
                                      x.user_id = u}}

\* C15: the connections a user has on a device at the same time carry one
\* colour, and no step changes that colour while the user keeps a connection
\* on the device.
OneColorPerUser ==
    [][\A d \in StoreDevices, u \in Users :
           /\ Cardinality(UserColors(d, u)') <= 1
           /\ (UserColors(d, u) # {} /\ UserColors(d, u)' # {})
                  => UserColors(d, u)' = UserColors(d, u)]_vars

\* Two channels of one user are listed for one device at the same time.
SecondTabListed ==
    \E d \in StoreDevices : \E a \in Clients, b \in Clients :
        /\ a # b
        /\ user_of(a) = user_of(b)
        /\ Registered(a, d)
        /\ Registered(b, d)

\* C18: once the close handling of a channel has completed, its client_id is
\* in no device's subscriber list.
ClosedMeansUnregistered ==
    \A c \in Clients :
        handler[c].pc = "closed"
            => \A d \in StoreDevices :
                   \A conn \in Range(active_connections[d]) :
                       conn.client_id # c

\* The close handling of a channel has just unregistered it from a device
\* another channel is subscribed to.
ClosedAfterRegistered ==
    \E c \in Clients, x \in Clients :
        /\ handler[c].pc = "closed"
        /\ \E i \in 1..Len(channel[x]) :
               channel[x][i].kind = "userLeft" /\ channel[x][i].origin = c

\* The events of a client's deviceEvent messages in a device's history.
OwnStored(c, d) ==
    {e.id : e \in {x \in Range(device_events[d]) : x.origin = c}}

\* The commands of a client routed to the manager for a device.
OwnCommands(c, d) ==
    {i \in 1..Len(command_log) :
        command_log[i] = [client_id |-> c, dev |-> d]}

\* Does a channel carry a stored event of the client for the device, sent by
\* a live broadcast?
OwnLive(c, d) ==
    \E x \in Clients : \E i \in 1..Len(channel[x]) :
        /\ channel[x][i].origin = c
        /\ channel[x][i].dev = d
        /\ channel[x][i].id > 0
        /\ channel[x][i].path = "live"

\* C19: while a client has no registration for a device, no step stores an
\* event of the client in the device's history, broadcasts one, or routes a
\* command of the client for the device to the manager.
GateRejectsUnregistered ==
    [][\A c \in Clients, d \in StoreDevices :
           ~Registered(c, d)
               => /\ OwnStored(c, d)' = OwnStored(c, d)
                  /\ OwnCommands(c, d)' = OwnCommands(c, d)
                  /\ ~OwnLive(c, d)']_vars

\* A client that sent an event while it was registered has unregistered and
\* got the error message for a later deviceEvent message.
RejectedAfterUnregister ==
    \E c \in Clients :
        /\ channel[c] = <<Item("error", 0, "error", c, "status", "")>>
        /\ \A d \in StoreDevices : ~Registered(c, d)
        /\ \E d \in StoreDevices : OwnStored(c, d) # {}

\* ------------------------------------------------------------------------
\* Properties of commands, registries and the frame accumulator
\* ------------------------------------------------------------------------
\* C21: a send_command of a reset command returns an error only when the
\* reconnect attempt inside it fails, never for a failure of its write or
\* flush: a call that had the handle, or dialled successfully (and so sent
\* a connection status), returns Ok.
ResetWriteFailureIsSuccess ==
    (returned.op = "send_command" /\ returned.reset /\ ~returned.ok)
        => (~tcp_stream /\ returned.sent = <<>>)

\* The two presence events of the pair, as a channel receives them.
PairEvents(user) ==
    <<Item(pair.dev, 0, "userJoined", PairClient, "live", user),
      Item(pair.dev, 0, "userLeft", PairClient, "live", user)>>

\* Did the user of the pair have a connection on the device before it?
PairUserListed ==
    \E conn \in Range(pair.before) : conn.user_id = user_of(PairClient)

\* C22: register_client immediately followed by unregister_client, for a
\* client_id that was not registered, leaves the device's subscriber list as
\* it was, and sends to each other channel that receives presence events
\* exactly UserJoined and UserLeft of the user (the user had no other
\* connection on the device) or exactly the two refresh pulses (the user had
\* one), and nothing to any other channel but the client's own.
PairNetsOut ==
    pair.stage = "done"
        => /\ active_connections[pair.dev] = pair.before
           /\ \A x \in PairOthers :
                  pair.sent[x] =
                      IF IsSubscriber(x, pair.dev, Full)
                      THEN PairEvents(IF PairUserListed THEN RefreshUser
                                      ELSE user_of(PairClient))
                      ELSE <<>>

\* A pair is complete whose two refresh pulses reached another tab of the
\* user.
PairOfSecondTabDone ==
    /\ pair.stage = "done"
    /\ pair.sent["c1"] = PairEvents(RefreshUser)

\* C23: once an id has a session, an add_device call for the id leaves the
\* session object in place: no step puts another session object under the
\* id (the id keeps one configuration and one session, both maps being keyed
\* by the id).
AddDeviceKeepsSession ==
    [][\A d \in DeviceIds :
           sessions[d].made > 0 => sessions'[d].made = sessions[d].made]_vars

\* The objects of the stream as text, each decoded as a whole.
StreamObjects ==
    [i \in 1..Len(stream_parts) |-> from_utf8_lossy(stream_parts[i])]

IsPrefix(s, t) == Len(s) <= Len(t) /\ s = SubSeq(t, 1, Len(s))

\* The objects that hold ASCII bytes only.
AsciiObjects == JsonObjects \ {Obj(<<"C3", "A9">>)}

\* C24: for a stream that is a concatenation of well-formed JSON objects,
\* read in chunks of any size, the frames extracted so far are the first
\* objects of the stream, in order, and when the whole stream is read they
\* are all its objects and the buffer is empty.
FramesAreObjects ==
    (\A i \in 1..Len(stream_parts) : stream_parts[i] \in JsonObjects)
        => /\ IsPrefix(frames, StreamObjects)
           /\ wire = <<>> => (frames = StreamObjects /\ tcp_buffer = <<>>)

\* The same for streams of ASCII bytes.
AsciiFramesAreObjects ==
    (\A i \in 1..Len(stream_parts) : stream_parts[i] \in AsciiObjects)
        => /\ IsPrefix(frames, StreamObjects)
           /\ wire = <<>> => (frames = StreamObjects /\ tcp_buffer = <<>>)

\* C25: when a stream with a malformed fragment is read to its end, the
\* session is Connected and every well-formed object that came after the
\* fragment is among the extracted frames.
FragmentIsDropped ==
    (wire = <<>> /\ stream_parts # <<>>)
        => /\ connection_state = Connected
           /\ \A i \in 1..Len(stream_parts), j \in 1..Len(stream_parts) :
                  (j < i /\ stream_parts[j] \in Fragments
                         /\ stream_parts[i] \in AsciiObjects)
                      => \E k \in 1..Len(frames) :
                             frames[k] = StreamObjects[i]

\* ------------------------------------------------------------------------
\* Replay and live broadcast
\* ------------------------------------------------------------------------
\* C26: a subscriber gets no event twice: in a run with one registration,
\* in which everything a channel got for a device is the replay batch of
\* that registration and the live broadcasts since, no event id occurs
\* twice among the events sent on a channel for a device.
DeliveredAtMostOnce ==
    regs_done <= 1
        => \A c \in Clients, d \in StoreDevices :
               \A i \in 1..Len(delivered[c][d]), j \in 1..Len(delivered[c][d]) :
                   delivered[c][d][i] = delivered[c][d][j] => i = j

\* Is the channel inside a registerForDevice message for the device?
Registering(c, d) ==
    handler[c].dev = d
        /\ handler[c].pc \in {"reg_broadcast", "reg_snapshot", "reg_replay"}

\* The events whose add_event call has pushed but not yet broadcast.
PendingIds ==
    {producer[p].id : p \in {q \in ProducerIds : producer[q].pc = "broadcast"}}
        \cup {handler[c].id : c \in {x \in Clients :
                                         handler[x].pc = "ev_broadcast"}}

\* C27: no event is lost between replay and subscription: once the
\* registration of a Full subscriber is complete, every event in the
\* device's history that another origin added, and whose add_event call
\* has returned, has been sent on the subscriber's channel, in a replay
\* batch or by a live broadcast.
NoEventLost ==
    \A c \in Clients, d \in StoreDevices :
        (IsSubscriber(c, d, Full) /\ ~Registering(c, d))
            => \A e \in Range(device_events[d]) :
                   (e.origin # c /\ e.id \notin PendingIds)
                       => e.id \in Range(delivered[c][d])

\* A channel that is registering as a Full subscriber, its entry listed and
\* its replay batch not yet sent, got a live broadcast of a stored event in
\* the latest step; and the history holds an event the batch will bring.
LiveBeforeReplay ==
    \E c \in Clients, d \in StoreDevices :
        /\ IsSubscriber(c, d, Full)
        /\ Registering(c, d)
        /\ \E i \in 1..Len(channel[c]) :
               /\ channel[c][i].path = "live"
               /\ channel[c][i].id > 0
               /\ channel[c][i].dev = d
        /\ \E e \in Range(device_events[d]) :
               e.id \notin Range(delivered[c][d])

\* ------------------------------------------------------------------------
\* Lock discipline (C28, C29, C30)
\* ------------------------------------------------------------------------
\* C28: no interleaving of the manager's operations (add_device,
\* connect_device, disconnect_device, remove_device, command send, UDP, TCP
\* and UART ingress, the liveness monitor) and the store's operations
\* (add_event, register_client, unregister_client, cleanup, get_stats)
\* leaves tasks blocked forever on each other's locks: whenever tasks are
\* inside operations, one of them can take its next step.
DeadlockFree ==
    InFlight # {} => \E x \in InFlight : Granted(x)

\* A reader that holds a guard is queued behind a writer that is itself
\* waiting for the readers before it to leave.
ReaderQueuedBehindWriter ==
    \E x \in InFlight, y \in InFlight :
        /\ CurrentStep(x).act \in {"read", "read_once"}
        /\ Holds(x) # {}
        /\ WaitsToWrite(y, CurrentStep(x).lock)
        /\ ~Granted(x)
        /\ ~Granted(y)

\* The locks a task at position x holds.
HeldLocks(x) == {h.lock : h \in Holds(x)}

\* C29: in the event store no task ever holds the lock of the events
\* (device_events) and the lock of the subscribers (active_connections) at
\* the same time.
EventsAndSubscribersApart ==
    \A x \in InFlight :
        ~({"device_events", "active_connections"} \subseteq HeldLocks(x))

\* The shared maps: subscribers, events, configs, last_seen, is_connected.
SharedMaps == {"active_connections", "device_events", "device_configs",
               "unified_activity_tracker", "unified_connection_states"}

\* C30: a task that is about to send on a subscriber's channel holds no lock
\* of a shared map.
NoLockAcrossSend ==
    \A x \in InFlight :
        CurrentStep(x).act = "send" => HeldLocks(x) \cap SharedMaps = {}

\* ------------------------------------------------------------------------
\* Reader tasks of a session (C31, C40)
\* ------------------------------------------------------------------------
\* C31: when disconnect has returned, no reader task of the session is left
\* running: every reader started for it, those of earlier connects
\* included, has seen the shutdown signal and has exited.
DisconnectStopsReaders ==
    returned.op = "disconnect_device" => reader_tasks = 0

\* C40: at most one reader task runs per session, also after a connect on a
\* reused (Connecting) session.
OneReaderPerSession == reader_tasks <= 1

\* ------------------------------------------------------------------------
\* A command on a session without a handle (C36)
\* ------------------------------------------------------------------------
\* C36: a command dials at most once and writes at most once; when it was
\* sent without a handle and the dial failed, it returns an error, the
\* session's state is what it was, there is still no handle and no
\* ConnectionStatus was emitted.
OneDialOneWrite ==
    returned.op = "send_command" =>
        /\ returned.dials <= 1
        /\ returned.writes <= 1
        /\ (returned.dials = 1 /\ returned.writes = 0) =>
               /\ ~returned.ok
               /\ returned.sent = <<>>
               /\ connection_state = returned.was
               /\ ~tcp_stream

\* A command was sent without a handle and its dial failed.
DialFailed ==
    /\ returned.op = "send_command"
    /\ returned.dials = 1
    /\ returned.writes = 0
    /\ ~returned.ok

\* ------------------------------------------------------------------------
\* The connected flag, the state and the handle (C32, C38)
\* ------------------------------------------------------------------------
\* C32: when nothing is in flight, the device's connected flag
\* (is_connected) is set exactly when the latest ConnectionStatus stored for
\* the device says connected; it is unset when the latest one says
\* disconnected or none was emitted.
FlagIsLatestStatus ==
    Quiet =>
        (unified_connection_states
            <=> (status_log # <<>> /\ status_log[Len(status_log)]))

\* C38: a session whose state is Connected holds an open handle, also after
\* its reader has seen the peer close.
ConnectedHasHandle == connection_state = Connected => tcp_stream

\* ------------------------------------------------------------------------
\* Discovery of UART devices (C37)
\* ------------------------------------------------------------------------
\* How many DeviceDiscovered events of the id the history of "system" holds.
Discoveries(d) ==
    Cardinality({i \in 1..Len(system_events) : system_events[i] = d})

\* C37: the history of "system" never holds more than one DeviceDiscovered
\* event of a UART device, also when the handlers of its first frames run
\* side by side.
OneDiscoveryPerUartDevice ==
    \A d \in DeviceIds : Discoveries(d) <= 1

\* ------------------------------------------------------------------------
\* Removal of a device (C39)
\* ------------------------------------------------------------------------
\* C39: an id that was removed has no configuration and no session until it
\* enters again through add_device, an mDNS resolution or a UART frame; no
\* background task gives it a configuration on its own.
RemovedStaysAbsent ==
    \A d \in DeviceIds :
        entered_by[d] = "removed" =>
            (d \notin device_configs /\ d \notin connections)

\* ------------------------------------------------------------------------
\* Re-registration of a channel (C35)
\* ------------------------------------------------------------------------
\* C35: when a channel that has an entry on the device registers again, the
\* reconnection test looks at the entries that survive the removal of its
\* old one: the registration counts as a reconnection (colour reused,
\* refresh sentinel instead of UserJoined) exactly when an entry of another
\* channel of the same user is listed.
ReRegisterTestsSurvivors ==
    [][\A c \in Clients, dev \in StoreDevices :
          (/\ handler[c].pc = "idle"
           /\ handler'[c].pc = "reg_broadcast"
           /\ handler'[c].dev = dev
           /\ FirstByClient(active_connections[dev], c) # NoConn)
          => (handler'[c].recon
                <=> \E conn \in Range(RetainOthers(active_connections[dev],
                                                   c)) :
                        conn.user_id = user_of(c))]_vars

\* ------------------------------------------------------------------------
\* Presence events of one user under concurrent calls (C33)
\* ------------------------------------------------------------------------
\* The real UserJoined and UserLeft events of a user on a device, in the
\* order they were handed to broadcast_event.
RealPresence(user, dev) ==
    LET Real(entry) == entry.user_id = user /\ entry.dev = dev
    IN  SelectSeq(presence_log, Real)

Listed(user, dev) ==
    \E conn \in Range(active_connections[dev]) : conn.user_id = user

\* C33: the real UserJoined and UserLeft events of a user on a device
\* alternate, starting with UserJoined, whatever the interleaving of the
\* register and unregister calls of the user's channels; when all calls
\* have finished, the last one is UserLeft exactly when the user has no
\* subscriber left on the device.
PresenceAlternates ==
    \A user \in Users, dev \in StoreDevices :
        LET events == RealPresence(user, dev)
        IN  /\ \A i \in 1..Len(events) :
                   events[i].event = IF i % 2 = 1 THEN "userJoined"
                                     ELSE "userLeft"
            /\ (events # <<>>
                 /\ \A c \in Clients : handler[c].pc \in {"idle", "closed"})
                => (events[Len(events)].event = "userLeft"
                        <=> ~Listed(user, dev))

\* ------------------------------------------------------------------------
\* UserLeft after the last entry of a user is gone (C34)
\* ------------------------------------------------------------------------
\* The user was announced on the device, has no entry left on it, no
\* UserLeft was handed to broadcast_event since, and a subscriber of another
\* user remains on the device to receive it.
LeftOwed(user, dev) ==
    LET events == RealPresence(user, dev)
    IN  /\ ~Listed(user, dev)
        /\ events # <<>>
        /\ events[Len(events)].event = "userJoined"
        /\ \E conn \in Range(active_connections[dev]) : conn.user_id # user

\* C34: whenever the last entry of an announced user on a device is removed,
\* by unregister, by close or by the cleanup of closed channels, a UserLeft
\* of the user is eventually broadcast to the subscribers that remain on the
\* device (or the user is listed again, or no subscriber remains).
UserLeftFollowsRemoval ==
    \A user \in Users, dev \in StoreDevices :
        LeftOwed(user, dev) ~> ~LeftOwed(user, dev)
====
